---- MODULE Spec2Model ----
(***************************************************************************)
(* A model of the backtest simulation engine (src/backtest_engine.py), of  *)
(* the configuration it reads (src/settings.py, src/optimizer.py), of the  *)
(* tier rotation detector (src/rotation_detector.py) and of the session of *)
(* the API client (src/coingecko_api.py).                                  *)
(*                                                                         *)
(* Real numbers.  The program computes in IEEE doubles; the model computes *)
(* in exact rationals <<n, d>> (d > 0, lowest terms).  Every input of the  *)
(* model is chosen so that numerators stay below 2^31.                     *)
(*                                                                         *)
(* Objects.  A Trade is a mutable Python object held by reference in the   *)
(* engine's lists.  The model gives each trade an "id" (its identity); the *)
(* dataclass equality the code uses in list.remove compares every field    *)
(* but the id.                                                             *)
(***************************************************************************)
EXTENDS Integers, Sequences, FiniteSets, TLC

(***************************************************************************)
(* Exact rational arithmetic                                               *)
(***************************************************************************)
Abs(x) == IF x < 0 THEN -x ELSE x

RECURSIVE Gcd(_, _)
Gcd(a, b) == IF b = 0 THEN a ELSE Gcd(b, a % b)

Norm(n, d) ==
  LET g == Gcd(Abs(n), d)
  IN  IF n = 0 THEN <<0, 1>> ELSE <<n \div g, d \div g>>

R(i) == <<i, 1>>
Q(n, d) == Norm(n, d)

RNeg(a) == <<-a[1], a[2]>>

RAdd(a, b) ==
  LET g == Gcd(a[2], b[2])
      l == (a[2] \div g) * b[2]
  IN  Norm(a[1] * (l \div a[2]) + b[1] * (l \div b[2]), l)

RSub(a, b) == RAdd(a, RNeg(b))

RMul(a, b) ==
  LET g1 == Gcd(Abs(a[1]), b[2])
      g2 == Gcd(Abs(b[1]), a[2])
  IN  IF a[1] = 0 \/ b[1] = 0 THEN <<0, 1>>
      ELSE <<(a[1] \div g1) * (b[1] \div g2), (a[2] \div g2) * (b[2] \div g1)>>

\* a / b for b # 0
RDiv(a, b) ==
  IF b[1] > 0 THEN RMul(a, <<b[2], b[1]>>) ELSE RMul(a, <<-b[2], -b[1]>>)

RLe(a, b) ==
  LET g == Gcd(a[2], b[2])
  IN  a[1] * (b[2] \div g) <= b[1] * (a[2] \div g)

RLt(a, b) == ~RLe(b, a)
RMin(a, b) == IF RLe(a, b) THEN a ELSE b
RMax(a, b) == IF RLe(a, b) THEN b ELSE a

RECURSIVE RSum(_)
RSum(s) == IF s = <<>> THEN <<0, 1>> ELSE RAdd(s[1], RSum(Tail(s)))

(***************************************************************************)
(* Python None for an Optional[float] field and for an Optional[datetime]  *)
(* field (timestamps are positive integers in the model).                  *)
(***************************************************************************)
None == <<>>
NoTime == 0

(***************************************************************************)
(* List helpers                                                            *)
(***************************************************************************)
Range(s) == {s[i] : i \in 1..Len(s)}
Reverse(s) == [i \in 1..Len(s) |-> s[Len(s) + 1 - i]]

SetMin(S) == CHOOSE x \in S : \A y \in S : x <= y
SetMax(S) == CHOOSE x \in S : \A y \in S : x >= y

RECURSIVE SeqToSet(_)
SeqToSet(s) == IF s = <<>> THEN {} ELSE {s[1]} \cup SeqToSet(Tail(s))

(***************************************************************************)
(* Configuration: src/settings.py                                          *)
(***************************************************************************)
MAX_TIERS == 4
Tiers == 0..(MAX_TIERS - 1)

\* TIER_PARAMS as the module defines it at import
DefaultTierParams ==
  [tier \in Tiers |->
     [position_size_adjustment |-> RSub(R(1), RMul(R(tier), Q(15, 100))),
      stop_loss_multiplier     |-> RMul(Q(5, 100), R(tier + 1)),
      take_profit_multiplier   |-> RMul(Q(15, 100), R(tier + 1)),
      confidence_adjustment    |-> RAdd(R(1), RMul(R(tier), Q(5, 100)))]]

(***************************************************************************)
(* Inputs: the historical table and the signal list handed to run_backtest *)
(*                                                                         *)
(* A row is one asset at one timestamp, already carrying its tier column.  *)
(* The table is keyed by (coin_id, timestamp).  Coin "a" is a tier-0 asset *)
(* of market cap 20 whose 24h change is 1 % (volatility 0.01, below the    *)
(* clamp); coin "b" varies per table: same tier and same cap as "a" (a     *)
(* tie), same tier and a larger cap, or another tier.  Its 24h change is   *)
(* 10 %.  Both trade at 100 at timestamp 1; at timestamp 2 each is absent  *)
(* or trades at 50, 100 or 200.  Rows come in timestamp order, and the     *)
(* tables with both assets at timestamp 2 also reversed.  Signals for      *)
(* timestamp 1 are of three kinds (tier 0 at confidence 0.9 or 2/3, tier 2 *)
(* at confidence 1.5, above the clamp); signals for timestamp 2 are tier 0 *)
(* at confidence 0.9.                                                      *)
(***************************************************************************)
Coins == {"a", "b"}
Timestamps == {1, 2}

BKinds == {[tier |-> 0, cap |-> 20], [tier |-> 0, cap |-> 30], [tier |-> 2, cap |-> 20]}

Row(t, c, price, bk) ==
  [timestamp |-> t, coin_id |-> c, close |-> R(price),
   market_cap |-> IF c = "a" THEN 20 ELSE bk.cap,
   tier       |-> IF c = "a" THEN 0 ELSE bk.tier,
   price_change_percentage_24h |-> IF c = "a" THEN 1 ELSE 10]

\* prices of <<a, b>> at timestamp 2; 0 stands for "no row"
Snapshots2 == {<<50, 0>>, <<0, 100>>, <<100, 100>>, <<50, 200>>}

OptRow(t, c, price, bk) == IF price = 0 THEN <<>> ELSE <<Row(t, c, price, bk)>>

TableOf(snap, bk) ==
  <<Row(1, "a", 100, bk), Row(1, "b", 100, bk)>>
    \o OptRow(2, "a", snap[1], bk) \o OptRow(2, "b", snap[2], bk)

Tables ==
  LET base == {TableOf(snap, bk) : snap \in Snapshots2, bk \in BKinds}
  IN  base \cup {Reverse(t) : t \in {u \in base : Len(u) = 4}}

\* RotationSignal (src/rotation_detector.py); the engine reads timestamp,
\* to_tier and confidence only
SignalKinds == {[to_tier |-> 0, confidence |-> Q(9, 10)],
                [to_tier |-> 0, confidence |-> Q(2, 3)],
                [to_tier |-> 2, confidence |-> Q(3, 2)]}

SignalOf(t, k) ==
  [timestamp |-> t, from_tier |-> 1, to_tier |-> k.to_tier, confidence |-> k.confidence,
   signal_type |-> "tier_rotation"]

SignalPool ==
  {SignalOf(1, k) : k \in SignalKinds}
    \cup {SignalOf(t, [to_tier |-> 0, confidence |-> Q(9, 10)]) : t \in Timestamps}

MaxSignals == 2

SignalLists == UNION {[1..n -> SignalPool] : n \in 0..MaxSignals}

\* engine constructor arguments: the default fraction, and one so large that a
\* position takes the whole capital (confidence 2/3) or more (confidence 0.9)
MaxPositionSizes == {Q(1, 10), Q(3, 2)}
DefaultInitialCapital == 100000

(***************************************************************************)
(* State                                                                   *)
(***************************************************************************)
VARIABLES
  TIER_PARAMS,          \* the module-level dict of src/settings.py
  initial_capital,      \* BacktestEngine fields
  current_capital,
  max_position_size,
  positions,
  closed_trades,
  performance_metrics,
  table,                \* the caller's historical table and signal list
  sigs,
  pc,                   \* "idle" (no run yet), "loop" (run_backtest is in its
                        \* loop), "returned", "raised" (how the last run ended)
  historical_data,      \* run_backtest locals: the sorted table,
  signals,              \* the sorted signals,
  timestamp,            \* the loop's current timestamp
  sig_idx,              \* and the index into current_signals
  result,               \* the dict run_backtest returned last
  next_id,              \* identity of the next Trade object
  calls,                \* the calls the current run has made, in order
  last_entry,           \* what the last enter_position call computed and returned
  runs,                 \* run_backtest calls started on this engine
  applied,              \* the results apply_optimization_results was given
  run_input,            \* what the current run was started with
  first_run,            \* what the first run was given and returned
  market_table,         \* the table handed to the RotationDetector
  min_confidence,       \* RotationDetector.min_confidence
  volume_threshold,     \* RotationDetector.volume_threshold
  correlation_threshold,
  det_pc,               \* "idle", "returned" or "raised": how its call ended
  det_raised,           \* the exception generate_rotation_signals raised
  tiered_data,          \* generate_rotation_signals locals: identify_tiers' result,
  tier_metrics,         \* calculate_tier_metrics' result,
  volume_anomalies,     \* detect_volume_anomalies' result,
  correlations,         \* calculate_tier_correlations' result,
  evaluations,          \* the factors computed for each ordered pair of tiers
  det_signals,          \* the list generate_rotation_signals returned
  wall_clock,           \* what datetime.now() returned to it
  session,              \* CoinGeckoAPI.session: NoSession or the ClientSession held
  sessions_made,        \* the ClientSession objects constructed so far
  closed_sessions,      \* the ClientSession objects whose close() was awaited
  in_context,           \* inside 'async with CoinGeckoAPI() as api'
  api_log               \* the client calls made, with what each gave its caller

vars == <<TIER_PARAMS, initial_capital, current_capital, max_position_size, positions,
          closed_trades, performance_metrics, table, sigs, pc, historical_data, signals,
          timestamp, sig_idx, result, next_id, calls, last_entry, runs, applied, run_input,
          first_run, market_table, min_confidence, volume_threshold,
          correlation_threshold, det_pc, det_raised, tiered_data,
          tier_metrics, volume_anomalies, correlations, evaluations, det_signals,
          wall_clock, session, sessions_made, closed_sessions, in_context, api_log>>

engine == <<current_capital, positions, closed_trades>>
\* the detector's three tunable fields, and what its calls read and leave
thresholds == <<volume_threshold, correlation_threshold, min_confidence>>
detector_state == <<market_table, det_pc, det_raised, tiered_data, tier_metrics,
                    volume_anomalies, correlations, evaluations, det_signals, wall_clock>>
detector == <<thresholds, detector_state>>
\* the API client (src/coingecko_api.py)
api == <<session, sessions_made, closed_sessions, in_context, api_log>>

(***************************************************************************)
(* BacktestEngine: position sizing and risk levels                         *)
(***************************************************************************)
Clamp(x, lo, hi) == RMin(RMax(x, lo), hi)

\* fault injection: the size without the confidence factor
calculate_position_size_unscaled(tier, signal_confidence) ==
  RMul(RMul(current_capital, max_position_size),
       TIER_PARAMS[tier].position_size_adjustment)

\* fault injection: the confidence used as given, not clamped
calculate_position_size_unclamped(tier, signal_confidence) ==
  RMul(RMul(RMul(current_capital, max_position_size),
            TIER_PARAMS[tier].position_size_adjustment), signal_confidence)

calculate_position_size(tier, signal_confidence) ==
  LET tier_adjustment == TIER_PARAMS[tier].position_size_adjustment
      confidence_adjustment == Clamp(signal_confidence, Q(3, 10), R(1))
  IN  RMul(RMul(RMul(current_capital, max_position_size), tier_adjustment),
           confidence_adjustment)

\* fault injection: the stop loss put at the entry price itself
calculate_risk_levels_at_entry(tier, entry_price, volatility) ==
  LET tier_params == TIER_PARAMS[tier]
      volatility_adjustment == Clamp(volatility, Q(2, 100), Q(15, 100))
  IN  [stop_loss   |-> entry_price,
       take_profit |-> RMul(entry_price,
                            RAdd(R(1), RMul(tier_params.take_profit_multiplier,
                                            volatility_adjustment)))]

\* fault injection: the volatility used as given, not clamped
calculate_risk_levels_unclamped(tier, entry_price, volatility) ==
  LET tier_params == TIER_PARAMS[tier]
  IN  [stop_loss |-> RMul(entry_price,
                          RSub(R(1), RMul(tier_params.stop_loss_multiplier, volatility))),
       take_profit |-> RMul(entry_price,
                            RAdd(R(1), RMul(tier_params.take_profit_multiplier, volatility)))]

calculate_risk_levels(tier, entry_price, volatility) ==
  LET tier_params == TIER_PARAMS[tier]
      volatility_adjustment == Clamp(volatility, Q(2, 100), Q(15, 100))
  IN  [stop_loss   |-> RMul(entry_price,
                            RSub(R(1), RMul(tier_params.stop_loss_multiplier,
                                            volatility_adjustment))),
       take_profit |-> RMul(entry_price,
                            RAdd(R(1), RMul(tier_params.take_profit_multiplier,
                                            volatility_adjustment)))]

NewTrade(id, ts, coin_id, tier, entry_price, position_size, levels, signal_confidence) ==
  [id |-> id, entry_time |-> ts, exit_time |-> NoTime, coin_id |-> coin_id,
   tier |-> tier, entry_price |-> entry_price, exit_price |-> None,
   position_size |-> position_size, stop_loss |-> levels.stop_loss,
   take_profit |-> levels.take_profit, signal_confidence |-> signal_confidence,
   status |-> "open", pnl |-> None]

\* fault injection: enter_position without the capital check of lines 108-110
enter_position_unchecked(ts, coin_id, tier, entry_price, volatility, signal_confidence) ==
  LET position_size == calculate_position_size(tier, signal_confidence)
      levels == calculate_risk_levels(tier, entry_price, volatility)
      trade == NewTrade(next_id, ts, coin_id, tier, entry_price, position_size,
                        levels, signal_confidence)
  IN  [returned |-> <<trade>>, position_size |-> position_size,
       positions |-> Append(positions, trade),
       current_capital |-> RSub(current_capital, position_size)]

\* enter_position: what it returns and the engine state it leaves
enter_position(ts, coin_id, tier, entry_price, volatility, signal_confidence) ==
  LET position_size == calculate_position_size(tier, signal_confidence)
      levels == calculate_risk_levels(tier, entry_price, volatility)
      trade == NewTrade(next_id, ts, coin_id, tier, entry_price, position_size,
                        levels, signal_confidence)
  IN  IF RLt(current_capital, position_size)
      THEN [returned |-> None, position_size |-> position_size,
            positions |-> positions, current_capital |-> current_capital]
      ELSE [returned |-> <<trade>>, position_size |-> position_size,
            positions |-> Append(positions, trade),
            current_capital |-> RSub(current_capital, position_size)]

calculate_pnl(trade) ==
  IF trade.exit_price = None THEN R(0)
  ELSE RDiv(RSub(trade.exit_price, trade.entry_price), trade.entry_price)

(***************************************************************************)
(* BacktestEngine.update_positions                                         *)
(***************************************************************************)
\* dataclass equality: every field of Trade
TradeEq(t, u) == [t EXCEPT !.id = 0] = [u EXCEPT !.id = 0]

\* fault injection: an exit that leaves exit_time unset
ExitTradeUntimed(trade, current_price, ts, status) ==
  LET t1 == [trade EXCEPT !.exit_price = current_price, !.status = status]
  IN  [t1 EXCEPT !.pnl = calculate_pnl(t1)]

\* lines 159-162 / 166-169: the four assignments of an exit
ExitTrade(trade, current_price, ts, status) ==
  LET t1 == [trade EXCEPT !.exit_price = current_price, !.exit_time = ts,
                          !.status = status]
  IN  [t1 EXCEPT !.pnl = calculate_pnl(t1)]

\* fault injection: the take-profit tested before the stop-loss
CheckExitTargetFirst(trade, current_price, ts) ==
  IF RLe(trade.take_profit, current_price)
  THEN ExitTrade(trade, current_price, ts, "closed")
  ELSE IF RLe(current_price, trade.stop_loss)
       THEN ExitTrade(trade, current_price, ts, "stopped")
       ELSE trade

\* the stop-loss / take-profit test of one open trade at current_price
CheckExit(trade, current_price, ts) ==
  IF RLe(current_price, trade.stop_loss)
  THEN ExitTrade(trade, current_price, ts, "stopped")
  ELSE IF RLe(trade.take_profit, current_price)
       THEN ExitTrade(trade, current_price, ts, "closed")
       ELSE trade

RowsOf(market_data, coin_id) == SelectSeq(market_data, LAMBDA r : r.coin_id = coin_id)

RECURSIVE ScanPositions(_, _, _, _, _)
\* the first loop (lines 148-170) from index i on.  The trades are mutated in
\* place, so pos carries the mutations made so far; the price lookup
\* .iloc[0] raises IndexError when the snapshot has no row of the coin.
ScanPositions(pos, i, closed_positions, ts, market_data) ==
  IF i > Len(pos)
  THEN [raised |-> FALSE, positions |-> pos, closed_positions |-> closed_positions]
  ELSE IF pos[i].status # "open"
  THEN ScanPositions(pos, i + 1, closed_positions, ts, market_data)
  ELSE IF RowsOf(market_data, pos[i].coin_id) = <<>>
  THEN [raised |-> TRUE, positions |-> pos, closed_positions |-> closed_positions]
  ELSE LET current_price == RowsOf(market_data, pos[i].coin_id)[1].close
           trade == CheckExit(pos[i], current_price, ts)
       IN  IF trade.status = "open"
           THEN ScanPositions(pos, i + 1, closed_positions, ts, market_data)
           ELSE ScanPositions([pos EXCEPT ![i] = trade], i + 1,
                              Append(closed_positions, trade), ts, market_data)

\* list.remove(trade): the first element equal to trade goes
ListRemove(pos, trade) ==
  LET hits == {i \in 1..Len(pos) : TradeEq(pos[i], trade)}
      k == SetMin(hits)
  IN  [i \in 1..(Len(pos) - 1) |-> IF i < k THEN pos[i] ELSE pos[i + 1]]

\* the amount one closed trade returns to the capital (line 176)
\* fault injection: only the profit is credited, not the principal
CreditPnlOnly(trade) == RMul(trade.position_size, trade.pnl)

Credit(trade) == RMul(trade.position_size, RAdd(R(1), trade.pnl))

RECURSIVE SettleClosed(_, _, _, _)
\* the second loop (lines 173-176)
SettleClosed(closed_positions, pos, ct, capital) ==
  IF closed_positions = <<>>
  THEN [positions |-> pos, closed_trades |-> ct, current_capital |-> capital]
  ELSE LET trade == closed_positions[1]
       IN  SettleClosed(Tail(closed_positions), ListRemove(pos, trade),
                        Append(ct, trade), RAdd(capital, Credit(trade)))

update_positions(ts, market_data) ==
  LET scan == ScanPositions(positions, 1, <<>>, ts, market_data)
      done == SettleClosed(scan.closed_positions, scan.positions, closed_trades,
                           current_capital)
  IN  IF scan.raised
      THEN [raised |-> TRUE, returned |-> <<>>, positions |-> scan.positions,
            closed_trades |-> closed_trades, current_capital |-> current_capital]
      ELSE [raised |-> FALSE, returned |-> scan.closed_positions,
            positions |-> done.positions, closed_trades |-> done.closed_trades,
            current_capital |-> done.current_capital]

(***************************************************************************)
(* BacktestEngine.calculate_performance_metrics                            *)
(* A dict is a function from its keys; {} is the empty function.  The      *)
(* per-tier keys tier_<i>_return / tier_<i>_trades are the two functions   *)
(* tier_return / tier_trades, defined on the tiers that have trades.       *)
(* return_std needs a square root and is not represented; sharpe_ratio,    *)
(* mean / std, is represented by its signed square mean * |mean| / variance *)
(* which is 0, positive or negative exactly when the ratio is.             *)
(***************************************************************************)
EmptyDict == <<>>

Pnls(ct) == [i \in 1..Len(ct) |-> ct[i].pnl]

RMean(s) == RDiv(RSum(s), R(Len(s)))

RECURSIVE RSeqMin(_)
RSeqMin(s) == IF Len(s) = 1 THEN s[1] ELSE RMin(s[1], RSeqMin(Tail(s)))

\* np.std squared: the population variance
Variance(s) ==
  LET m == RMean(s)
  IN  RMean([i \in 1..Len(s) |-> RMul(RSub(s[i], m), RSub(s[i], m))])

RAbs(a) == IF RLt(a, R(0)) THEN RNeg(a) ELSE a

\* fault injection: the ratio without the guard on the standard deviation;
\* numpy's division by zero gives inf or nan, a value with denominator 0
sharpe_ratio_unguarded(pnls) ==
  IF Variance(pnls) = R(0) THEN <<RMean(pnls)[1], 0>>
  ELSE RDiv(RMul(RMean(pnls), RAbs(RMean(pnls))), Variance(pnls))

\* line 212
sharpe_ratio(pnls) ==
  IF RLt(R(0), Variance(pnls))
  THEN RDiv(RMul(RMean(pnls), RAbs(RMean(pnls))), Variance(pnls))
  ELSE R(0)

\* fault injection: the per-tier keys written for every tier, with 0 for the
\* mean of a tier without closed trades
MetricsOfEveryTier(ct, capital, initial) ==
  LET pnls == Pnls(ct)
      TierPnls(tier) == Pnls(SelectSeq(ct, LAMBDA t : t.tier = tier))
  IN  [total_trades   |-> Len(ct),
       win_rate       |-> Q(Cardinality({i \in 1..Len(pnls) : RLt(R(0), pnls[i])}),
                            Len(pnls)),
       average_return |-> RMean(pnls),
       sharpe_ratio   |-> sharpe_ratio(pnls),
       max_drawdown   |-> RSeqMin(pnls),
       final_capital  |-> capital,
       total_return   |-> RDiv(RSub(capital, initial), initial),
       tier_return    |-> [tier \in Tiers |-> IF TierPnls(tier) = <<>> THEN R(0)
                                               ELSE RMean(TierPnls(tier))],
       tier_trades    |-> [tier \in Tiers |-> Len(TierPnls(tier))]]

MetricsOf(ct, capital, initial) ==
  LET pnls == Pnls(ct)
      traded == {tier \in Tiers : \E i \in 1..Len(ct) : ct[i].tier = tier}
      TierPnls(tier) == Pnls(SelectSeq(ct, LAMBDA t : t.tier = tier))
  IN  [total_trades   |-> Len(ct),
       win_rate       |-> Q(Cardinality({i \in 1..Len(pnls) : RLt(R(0), pnls[i])}),
                            Len(pnls)),
       average_return |-> RMean(pnls),
       sharpe_ratio   |-> sharpe_ratio(pnls),
       max_drawdown   |-> RSeqMin(pnls),
       final_capital  |-> capital,
       total_return   |-> RDiv(RSub(capital, initial), initial),
       tier_return    |-> [tier \in traded |-> RMean(TierPnls(tier))],
       tier_trades    |-> [tier \in traded |-> Len(TierPnls(tier))]]

\* what the call returns and what it leaves in self.performance_metrics, for
\* an engine holding the closed trades ct and the capital
calculate_performance_metrics(ct, capital) ==
  IF ct = <<>>
  THEN [returned |-> EmptyDict, performance_metrics |-> performance_metrics]
  ELSE LET metrics == MetricsOf(ct, capital, initial_capital)
       IN  [returned |-> metrics, performance_metrics |-> metrics]

(***************************************************************************)
(* BacktestEngine.run_backtest, one action per step of its loop            *)
(***************************************************************************)
RECURSIVE ConcatByTimestamp(_, _)
ConcatByTimestamp(s, keys) ==
  IF keys = {} THEN <<>>
  ELSE LET k == SetMin(keys)
       IN  SelectSeq(s, LAMBDA r : r.timestamp = k) \o ConcatByTimestamp(s, keys \ {k})

\* DataFrame.sort_values('timestamp') and sorted(signals, key=timestamp): rows
\* of equal timestamp keep their order (tables this small are sorted by a
\* stable insertion sort)
SortByTimestamp(s) == ConcatByTimestamp(s, {r.timestamp : r \in SeqToSet(s)})

\* the keys of groupby('timestamp'), which iterates them in ascending order
GroupKeys(df) == {r.timestamp : r \in SeqToSet(df)}
FirstKey(df) == SetMin(GroupKeys(df))
LaterKeys(df, ts) == {k \in GroupKeys(df) : k > ts}
Group(df, ts) == SelectSeq(df, LAMBDA r : r.timestamp = ts)

RECURSIVE ConcatByCapDesc(_, _)
ConcatByCapDesc(s, keys) ==
  IF keys = {} THEN <<>>
  ELSE LET k == SetMax(keys)
       IN  SelectSeq(s, LAMBDA r : r.market_cap = k) \o ConcatByCapDesc(s, keys \ {k})

\* fault injection: the rows of the tier in table order, not sorted by cap
TargetCoinsUnsorted(market_data, to_tier) ==
  SelectSeq(market_data, LAMBDA r : r.tier = to_tier)

\* market_data[tier == to_tier].sort_values('market_cap', ascending=False)
TargetCoins(market_data, to_tier) ==
  LET rows == SelectSeq(market_data, LAMBDA r : r.tier = to_tier)
  IN  ConcatByCapDesc(rows, {r.market_cap : r \in SeqToSet(rows)})

CurrentSignals == SelectSeq(signals, LAMBDA s : s.timestamp = timestamp)

\* fault injection: a reset that keeps the capital of the previous run
ResetKeepsCapital ==
  /\ current_capital' = current_capital
  /\ positions' = <<>>
  /\ closed_trades' = <<>>

\* lines 243-245
ResetState ==
  /\ current_capital' = initial_capital
  /\ positions' = <<>>
  /\ closed_trades' = <<>>

MaxRuns == 2
MaxApplies == 2

\* RotationDetector.__init__ (src/rotation_detector.py lines 19-24) with the
\* default ANALYSIS_PARAMS; no table has been handed to it
DetectorIdle ==
  /\ market_table = <<>>
  /\ min_confidence = Q(6, 10)
  /\ volume_threshold = R(2)
  /\ correlation_threshold = Q(7, 10)
  /\ det_pc = "idle"
  /\ det_raised = "none"
  /\ tiered_data = <<>>
  /\ tier_metrics = <<>>
  /\ volume_anomalies = <<>>
  /\ correlations = <<>>
  /\ evaluations = <<>>
  /\ det_signals = <<>>
  /\ wall_clock = NoTime

\* self.session = None (line 17)
NoSession == 0

\* CoinGeckoAPI.__init__
ApiIdle ==
  /\ session = NoSession
  /\ sessions_made = 0
  /\ closed_sessions = {}
  /\ in_context = FALSE
  /\ api_log = <<>>

Init ==
  /\ TIER_PARAMS = DefaultTierParams
  /\ initial_capital = R(DefaultInitialCapital)
  /\ current_capital = R(DefaultInitialCapital)
  /\ max_position_size \in MaxPositionSizes
  /\ positions = <<>>
  /\ closed_trades = <<>>
  /\ performance_metrics = EmptyDict
  /\ table \in Tables
  /\ sigs \in SignalLists
  /\ pc = "idle"
  /\ historical_data = <<>>
  /\ signals = <<>>
  /\ timestamp = NoTime
  /\ sig_idx = 0
  /\ result = EmptyDict
  /\ next_id = 1
  /\ calls = <<>>
  /\ last_entry = None
  /\ runs = 0
  /\ applied = <<>>
  /\ run_input = None
  /\ first_run = None
  /\ DetectorIdle
  /\ ApiIdle

config == <<TIER_PARAMS, initial_capital, max_position_size>>
\* what the engine never writes: the caller's table and signals, the detector
inputs == <<table, sigs, detector, api>>
locals == <<historical_data, signals>>

\* what a finished run hands to its caller: the returned dict, or the exception
Outcome(raised, res) ==
  IF raised THEN [raised |-> TRUE]
  ELSE [raised |-> FALSE, trades |-> res.trades, final_capital |-> res.final_capital,
        metrics |-> res.metrics]

RecordFirst(raised, res) ==
  first_run' = IF runs = 1 THEN [input |-> run_input, outcome |-> Outcome(raised, res)]
               ELSE first_run

\* lines 242-249: reset and sort; the for loop has not fetched a group yet.
\* The first run is given the caller's signal list, a second run that list
\* or an empty one.
RunBacktest ==
  /\ pc \in {"idle", "returned", "raised"}
  /\ runs < MaxRuns
  /\ \E given \in ({sigs} \cup IF runs = 1 THEN {<<>>} ELSE {}) :
       /\ signals' = SortByTimestamp(given)
       /\ run_input' = [signals |-> given, TIER_PARAMS |-> TIER_PARAMS,
                        max_position_size |-> max_position_size]
  /\ ResetState
  /\ historical_data' = SortByTimestamp(table)
  /\ timestamp' = NoTime
  /\ pc' = "loop"
  /\ sig_idx' = 1
  /\ runs' = runs + 1
  /\ calls' = <<>>
  /\ last_entry' = None
  /\ UNCHANGED <<config, inputs, performance_metrics, result, next_id, applied, first_run>>

\* the inner for loop over current_signals (line 259) has a signal left
SignalPending == pc = "loop" /\ sig_idx <= Len(CurrentSignals)
\* it has none left (before the first group there are none)
SignalsDone == pc = "loop" /\ sig_idx > Len(CurrentSignals)

\* the effect of one update_positions call on the engine and on the call log
CallUpdate(ts, market_data) ==
  LET u == update_positions(ts, market_data)
  IN  /\ positions' = u.positions
      /\ closed_trades' = u.closed_trades
      /\ current_capital' = u.current_capital
      /\ calls' = Append(calls, [op |-> "update_positions", timestamp |-> ts,
                                 raised |-> u.raised])

\* fault injection: the latest remaining group instead of the earliest
NextGroupLatest == SetMax(LaterKeys(historical_data, timestamp))

\* lines 252-254: the for loop fetches the next group and updates the positions
NextGroup == SetMin(LaterKeys(historical_data, timestamp))

UpdateStep ==
  /\ SignalsDone
  /\ LaterKeys(historical_data, timestamp) # {}
  /\ ~update_positions(NextGroup, Group(historical_data, NextGroup)).raised
  /\ CallUpdate(NextGroup, Group(historical_data, NextGroup))
  /\ timestamp' = NextGroup
  /\ sig_idx' = 1
  /\ UNCHANGED <<config, inputs, locals, performance_metrics, pc, result, next_id,
                 last_entry, runs, applied, run_input, first_run>>

\* line 254, the price lookup raising: the exception leaves run_backtest
UpdateStepRaises ==
  /\ SignalsDone
  /\ LaterKeys(historical_data, timestamp) # {}
  /\ update_positions(NextGroup, Group(historical_data, NextGroup)).raised
  /\ CallUpdate(NextGroup, Group(historical_data, NextGroup))
  /\ timestamp' = NextGroup
  /\ pc' = "raised"
  /\ RecordFirst(TRUE, result)
  /\ UNCHANGED <<config, inputs, locals, performance_metrics, sig_idx, result, next_id,
                 last_entry, runs, applied, run_input>>

\* lines 259-266: the signal at hand and the rows of its destination tier
Signal == CurrentSignals[sig_idx]
SignalTargets == TargetCoins(Group(historical_data, timestamp), Signal.to_tier)

SkipSignal ==
  /\ sig_idx' = sig_idx + 1
  /\ UNCHANGED <<config, inputs, locals, engine, performance_metrics, pc, timestamp,
                 result, next_id, calls, last_entry, runs, applied, run_input, first_run>>

\* line 265: no row of this timestamp carries the tier
SignalNoTarget ==
  /\ SignalPending
  /\ SignalTargets = <<>>
  /\ SkipSignal

\* line 269: no capital left
SignalNoCapital ==
  /\ SignalPending
  /\ SignalTargets # <<>>
  /\ ~RLt(R(0), current_capital)
  /\ SkipSignal

\* lines 266-277: the enter_position call run_backtest makes for Signal
SignalEntry ==
  LET coin_data == SignalTargets[1]
  IN  enter_position(timestamp, coin_data.coin_id, Signal.to_tier, coin_data.close,
                     RDiv(R(coin_data.price_change_percentage_24h), R(100)),
                     Signal.confidence)

CallEnter ==
  /\ SignalPending
  /\ SignalTargets # <<>>
  /\ RLt(R(0), current_capital)
  /\ positions' = SignalEntry.positions
  /\ current_capital' = SignalEntry.current_capital
  /\ last_entry' = [position_size |-> SignalEntry.position_size,
                    returned |-> SignalEntry.returned]
  /\ calls' = Append(calls, [op |-> "enter_position", timestamp |-> timestamp,
                             raised |-> FALSE])
  /\ sig_idx' = sig_idx + 1
  /\ UNCHANGED <<config, inputs, locals, closed_trades, performance_metrics, pc,
                 timestamp, result, runs, applied, run_input, first_run>>

SignalEnters ==
  /\ CallEnter
  /\ SignalEntry.returned # None
  /\ next_id' = next_id + 1

SignalRejected ==
  /\ CallEnter
  /\ SignalEntry.returned = None
  /\ next_id' = next_id

\* lines 280-281: historical_data.iloc[-1:], the last row alone
FinalMarketData == <<historical_data[Len(historical_data)]>>
FinalTimestamp == FinalMarketData[1].timestamp

\* lines 279-290: the loop is over; the final update, the metrics, the return
FinalUpdate ==
  /\ SignalsDone
  /\ LaterKeys(historical_data, timestamp) = {}
  /\ ~update_positions(FinalTimestamp, FinalMarketData).raised
  /\ CallUpdate(FinalTimestamp, FinalMarketData)
  /\ performance_metrics' =
       calculate_performance_metrics(closed_trades', current_capital').performance_metrics
  /\ result' = [metrics |-> calculate_performance_metrics(closed_trades',
                                                          current_capital').returned,
                trades |-> closed_trades', final_capital |-> current_capital']
  /\ pc' = "returned"
  /\ RecordFirst(FALSE, result')
  /\ UNCHANGED <<config, inputs, locals, timestamp, sig_idx, next_id, last_entry, runs,
                 applied, run_input>>

\* line 281 raising
FinalUpdateRaises ==
  /\ SignalsDone
  /\ LaterKeys(historical_data, timestamp) = {}
  /\ update_positions(FinalTimestamp, FinalMarketData).raised
  /\ CallUpdate(FinalTimestamp, FinalMarketData)
  /\ pc' = "raised"
  /\ RecordFirst(TRUE, result)
  /\ UNCHANGED <<config, inputs, locals, performance_metrics, timestamp, sig_idx, result,
                 next_id, last_entry, runs, applied, run_input>>

(***************************************************************************)
(* ParameterOptimizer (src/optimizer.py): the configuration it writes      *)
(***************************************************************************)
\* metrics.get('tier_<i>_return', 0) and metrics.get('tier_<i>_trades', 0)
TierReturnOf(metrics, tier) ==
  IF metrics # EmptyDict /\ tier \in DOMAIN metrics.tier_return
  THEN metrics.tier_return[tier] ELSE R(0)

TierTradesOf(metrics, tier) ==
  IF metrics # EmptyDict /\ tier \in DOMAIN metrics.tier_trades
  THEN metrics.tier_trades[tier] ELSE 0

calculate_tier_adjustments(metrics) ==
  [tier \in Tiers |->
     LET performance_factor ==
           IF TierTradesOf(metrics, tier) > 0
           THEN RMax(RMin(RAdd(R(1), TierReturnOf(metrics, tier)), Q(3, 2)), Q(1, 2))
           ELSE R(1)
     IN  [position_size   |-> RMul(RSub(R(1), RMul(R(tier), Q(15, 100))), performance_factor),
          entry_threshold |-> RMul(RAdd(R(1), RMul(R(tier), Q(1, 10))), performance_factor),
          stop_loss       |-> RMul(RAdd(R(1), RMul(R(tier), Q(2, 10))), performance_factor),
          take_profit     |-> RMul(RAdd(R(1), RMul(R(tier), Q(3, 10))), performance_factor)]]

\* values of parameter_ranges['position_size_multiplier'] the search can return
PositionSizeMultipliers == {Q(1, 20)}

\* the first values of the other three ranges (lines 20-23)
VolumeThresholds == {Q(3, 2)}
CorrelationThresholds == {Q(1, 2)}
OptimizedConfidences == {Q(2, 5)}

\* _generate_parameter_combinations (lines 26-42)
ParameterCombinations ==
  {[volume_threshold |-> v, correlation_threshold |-> c,
    position_size_multiplier |-> m, min_confidence |-> k] :
     v \in VolumeThresholds, c \in CorrelationThresholds,
     m \in PositionSizeMultipliers, k \in OptimizedConfidences}

\* the OptimizationResult optimize_tier_parameters builds from a run's result
OptimizationResults(res) ==
  {[parameters |-> params,
    performance |-> res.metrics,
    tier_adjustments |-> calculate_tier_adjustments(res.metrics)] :
     params \in ParameterCombinations}

\* fault injection: the stop-loss and take-profit multipliers set to the
\* adjustments, not multiplied by them
apply_optimization_results_assigning(optimization_result) ==
  /\ volume_threshold' = optimization_result.parameters.volume_threshold
  /\ correlation_threshold' = optimization_result.parameters.correlation_threshold
  /\ min_confidence' = optimization_result.parameters.min_confidence
  /\ max_position_size' = optimization_result.parameters.position_size_multiplier
  /\ TIER_PARAMS' =
       [tier \in Tiers |->
          LET adjustments == optimization_result.tier_adjustments[tier]
          IN  [TIER_PARAMS[tier] EXCEPT
                 !.position_size_adjustment = adjustments.position_size,
                 !.stop_loss_multiplier = adjustments.stop_loss,
                 !.take_profit_multiplier = adjustments.take_profit]]

\* lines 164-178
apply_optimization_results(optimization_result) ==
  /\ volume_threshold' = optimization_result.parameters.volume_threshold
  /\ correlation_threshold' = optimization_result.parameters.correlation_threshold
  /\ min_confidence' = optimization_result.parameters.min_confidence
  /\ max_position_size' = optimization_result.parameters.position_size_multiplier
  /\ TIER_PARAMS' =
       [tier \in Tiers |->
          LET adjustments == optimization_result.tier_adjustments[tier]
          IN  [TIER_PARAMS[tier] EXCEPT
                 !.position_size_adjustment = adjustments.position_size,
                 !.stop_loss_multiplier = RMul(@, adjustments.stop_loss),
                 !.take_profit_multiplier = RMul(@, adjustments.take_profit)]]

ApplyOptimization ==
  /\ pc = "returned"
  /\ Len(applied) < MaxApplies
  /\ \E optimization_result \in OptimizationResults(result) :
       /\ apply_optimization_results(optimization_result)
       /\ applied' = Append(applied, optimization_result)
  /\ UNCHANGED <<initial_capital, table, sigs, detector_state, api, locals, engine, performance_metrics, pc,
                 timestamp, sig_idx, result, next_id, calls, last_entry, runs, run_input,
                 first_run>>

\* optimize_tier_parameters, lines 62-65: the detector is given the next
\* combination to try; the signals it then generates are the caller's sigs of
\* the model and the backtest of line 71 is the run that follows
TryParameters ==
  /\ pc \in {"idle", "returned", "raised"}
  /\ runs < MaxRuns
  /\ \E params \in ParameterCombinations :
       /\ volume_threshold' = params.volume_threshold
       /\ correlation_threshold' = params.correlation_threshold
       /\ min_confidence' = params.min_confidence
  /\ UNCHANGED <<config, table, sigs, detector_state, api, locals, engine,
                 performance_metrics,
                 pc, timestamp, sig_idx, result, next_id, calls, last_entry, runs, applied,
                 run_input, first_run>>

Next ==
  \/ RunBacktest
  \/ UpdateStep
  \/ UpdateStepRaises
  \/ SignalNoTarget
  \/ SignalNoCapital
  \/ SignalEnters
  \/ SignalRejected
  \/ FinalUpdate
  \/ FinalUpdateRaises
  \/ ApplyOptimization
  \/ TryParameters

Spec == Init /\ [][Next]_vars

(***************************************************************************)
(* run_backtest for an engine allowed to put its whole capital into one    *)
(* position: BacktestEngine(max_position_size=1.0), and 1.5 for the        *)
(* rejection of line 109.  The signals are a tier-0 signal of confidence 1 *)
(* and a tier-2 signal of confidence 1.5 at timestamp 1 and a tier-0       *)
(* signal of confidence 0.9 at timestamp 2.                                *)
(***************************************************************************)
WholeSignalPool ==
  {SignalOf(1, [to_tier |-> 0, confidence |-> R(1)]),
   SignalOf(1, [to_tier |-> 2, confidence |-> Q(3, 2)]),
   SignalOf(2, [to_tier |-> 0, confidence |-> Q(9, 10)])}

InitWhole ==
  /\ TIER_PARAMS = DefaultTierParams
  /\ initial_capital = R(DefaultInitialCapital)
  /\ current_capital = R(DefaultInitialCapital)
  /\ max_position_size \in {R(1), Q(3, 2)}
  /\ positions = <<>>
  /\ closed_trades = <<>>
  /\ performance_metrics = EmptyDict
  /\ table \in Tables
  /\ sigs \in UNION {[1..n -> WholeSignalPool] : n \in 0..MaxSignals}
  /\ pc = "idle"
  /\ historical_data = <<>>
  /\ signals = <<>>
  /\ timestamp = NoTime
  /\ sig_idx = 0
  /\ result = EmptyDict
  /\ next_id = 1
  /\ calls = <<>>
  /\ last_entry = None
  /\ runs = 0
  /\ applied = <<>>
  /\ run_input = None
  /\ first_run = None
  /\ DetectorIdle
  /\ ApiIdle

SpecWhole == InitWhole /\ [][Next]_vars

(***************************************************************************)
(* Direct calls of the engine's public methods                             *)
(*                                                                         *)
(* A caller holding a fresh default engine calls enter_position and        *)
(* update_positions itself, with arguments run_backtest would not pass: a  *)
(* tier-1 entry, volatilities below, inside and above the clamp, a price   *)
(* of 100.70, and a negative entry price (the code validates nothing),     *)
(* for which the take-profit lies below the stop-loss.  The n-th call is   *)
(* made at timestamp n.                                                    *)
(***************************************************************************)
DirectEntry(coin_id, tier, entry_price, volatility, signal_confidence) ==
  [coin_id |-> coin_id, tier |-> tier, entry_price |-> entry_price,
   volatility |-> volatility, signal_confidence |-> signal_confidence]

\* the confidences make every size a twentieth or a tenth of the capital
DirectEntries ==
  {DirectEntry("a", 1, R(100), R(0), Q(10, 17)),
   DirectEntry("a", 1, R(100), Q(-1, 100), Q(10, 17)),
   DirectEntry("a", 1, R(100), Q(1, 10), Q(10, 17)),
   DirectEntry("a", 0, R(-100), Q(1, 5), R(1)),
   DirectEntry("b", 0, R(100), Q(1, 10), R(1))}

Quote(coin_id, close) == [coin_id |-> coin_id, close |-> close]

\* the snapshots handed to update_positions; the first and the last have no
\* row of asset "b"
DirectSnapshots ==
  {<<Quote("a", Q(1007, 10))>>,
   <<Quote("a", R(100)), Quote("b", R(100))>>,
   <<Quote("a", R(-100)), Quote("b", R(50))>>,
   <<Quote("a", R(99)), Quote("b", R(200))>>,
   <<Quote("a", R(100))>>}

MaxDirectCalls == 3

InitDirect ==
  /\ TIER_PARAMS = DefaultTierParams
  /\ initial_capital = R(DefaultInitialCapital)
  /\ current_capital = R(DefaultInitialCapital)
  /\ max_position_size = Q(1, 10)
  /\ positions = <<>>
  /\ closed_trades = <<>>
  /\ performance_metrics = EmptyDict
  /\ table = <<>>
  /\ sigs = <<>>
  /\ pc = "direct"
  /\ historical_data = <<>>
  /\ signals = <<>>
  /\ timestamp = NoTime
  /\ sig_idx = 0
  /\ result = EmptyDict
  /\ next_id = 1
  /\ calls = <<>>
  /\ last_entry = None
  /\ runs = 0
  /\ applied = <<>>
  /\ run_input = None
  /\ first_run = None
  /\ DetectorIdle
  /\ ApiIdle

DirectCallPending == pc = "direct" /\ Len(calls) < MaxDirectCalls
DirectTime == Len(calls) + 1

\* engine.enter_position(...) called by hand
DirectEnter ==
  /\ DirectCallPending
  /\ \E a \in DirectEntries :
       LET e == enter_position(DirectTime, a.coin_id, a.tier, a.entry_price,
                               a.volatility, a.signal_confidence)
       IN  /\ positions' = e.positions
           /\ current_capital' = e.current_capital
           /\ last_entry' = [position_size |-> e.position_size, returned |-> e.returned]
           /\ next_id' = IF e.returned = None THEN next_id ELSE next_id + 1
           /\ calls' = Append(calls, [op |-> "enter_position", timestamp |-> DirectTime,
                                      raised |-> FALSE, args |-> a])
  /\ UNCHANGED <<config, inputs, locals, closed_trades, performance_metrics, pc,
                 timestamp, sig_idx, result, runs, applied, run_input, first_run>>

DirectUpdateCall(market_data) ==
  LET u == update_positions(DirectTime, market_data)
  IN  /\ positions' = u.positions
      /\ closed_trades' = u.closed_trades
      /\ current_capital' = u.current_capital
      /\ calls' = Append(calls, [op |-> "update_positions", timestamp |-> DirectTime,
                                 raised |-> u.raised, market_data |-> market_data])
      /\ UNCHANGED <<config, inputs, locals, performance_metrics, pc, timestamp,
                     sig_idx, result, next_id, last_entry, runs, applied, run_input,
                     first_run>>

\* engine.update_positions(...) called by hand returns
DirectUpdate ==
  /\ DirectCallPending
  /\ \E market_data \in DirectSnapshots :
       /\ ~update_positions(DirectTime, market_data).raised
       /\ DirectUpdateCall(market_data)

\* or raises IndexError at the price lookup; the caller carries on
DirectUpdateRaises ==
  /\ DirectCallPending
  /\ \E market_data \in DirectSnapshots :
       /\ update_positions(DirectTime, market_data).raised
       /\ DirectUpdateCall(market_data)

NextDirect ==
  \/ DirectEnter
  \/ DirectUpdate
  \/ DirectUpdateRaises

SpecDirect == InitDirect /\ [][NextDirect]_vars

(***************************************************************************)
(* RotationDetector (src/rotation_detector.py)                             *)
(*                                                                         *)
(* Floating-point values.  A value is a rational <<n, d>> or NaN, written  *)
(* <<0, 0>>; arithmetic on a NaN gives NaN and every comparison with a NaN *)
(* is false, as in IEEE arithmetic.                                        *)
(***************************************************************************)
NaN == <<0, 0>>
IsNaN(x) == x[2] = 0

FSub(a, b) == IF IsNaN(a) \/ IsNaN(b) THEN NaN ELSE RSub(a, b)
\* numpy division: x / 0 is not an error, it gives nan for 0 / 0 and an
\* infinity otherwise; the callers below divide by positive values only
FDiv(a, b) == IF IsNaN(a) \/ IsNaN(b) \/ b[1] = 0 THEN NaN ELSE RDiv(a, b)
\* a > b of two floats
FGt(a, b) == ~IsNaN(a) /\ ~IsNaN(b) /\ RLt(b, a)

\* Series.mean / np.mean of a list of floats: NaN for an empty list and for
\* a list holding a NaN
FMean(s) ==
  IF s = <<>> \/ (\E i \in 1..Len(s) : IsNaN(s[i])) THEN NaN
  ELSE RDiv(RSum(s), R(Len(s)))

(***************************************************************************)
(* The market table handed to the detector: a DataFrame, that is a set of  *)
(* column names and a list of rows; "index" is the row's index label.      *)
(*                                                                         *)
(* A table is one snapshot of 1..MaxAssets assets at timestamp 1, or a    *)
(* snapshot of two assets at timestamp 1 followed by one of two assets at  *)
(* timestamp 2.  Market caps are drawn from 1..4 in every order, ties      *)
(* included.  The volumes of a snapshot are zero below a market cap of 3   *)
(* and the cap from there on ("large"), equal to the market cap ("flat",   *)
(* ratio 1) or its square ("steep", ratio = cap); its 24h changes rise or  *)
(* fall with the row position.  Two snapshots are                          *)
(* concatenated keeping each snapshot's own labels 0, 1 (so labels         *)
(* repeat) or relabelled 0 .. 3.  There are also the empty tables and      *)
(* tables lacking required columns.                                        *)
(***************************************************************************)
MaxAssets == 4
MarketCaps == 1..4
required_columns == {"market_cap", "total_volume", "price_change_percentage_24h"}
AllColumns == {"timestamp", "id"} \cup required_columns

Volume(shape, cap) ==
  CASE shape = "large" -> IF cap >= 3 THEN cap ELSE 0
    [] shape = "flat" -> cap
    [] shape = "steep" -> cap * cap

Change(shape, i) == IF shape = "up" THEN i ELSE -i

Snapshot(ts, caps, volumes, changes) ==
  [i \in 1..Len(caps) |->
     [timestamp |-> ts, index |-> i - 1, id |-> i,
      market_cap |-> caps[i],
      total_volume |-> Volume(volumes, caps[i]),
      price_change_percentage_24h |-> Change(changes, i)]]

FirstSnapshots ==
  {Snapshot(1, caps, volumes, "up") :
     caps \in UNION {[1..n -> MarketCaps] : n \in 1..MaxAssets},
     volumes \in {"large", "flat", "steep"}}

SecondSnapshots ==
  {Snapshot(2, caps, volumes, changes) :
     caps \in {<<2, 3>>, <<4, 1>>},
     volumes \in {"flat", "steep"},
     changes \in {"up", "down"}}

\* pd.concat(...) and pd.concat(..., ignore_index=True)
Relabel(rows) == [i \in 1..Len(rows) |-> [rows[i] EXCEPT !.index = i - 1]]

DataFrame(columns, rows) == [columns |-> columns, rows |-> rows]

PairSnapshots == {first \in FirstSnapshots : Len(first) = 2}

ValidTables ==
  {DataFrame(AllColumns, first) : first \in FirstSnapshots}
  \cup {DataFrame(AllColumns, first \o second) :
          first \in PairSnapshots, second \in SecondSnapshots}
  \cup {DataFrame(AllColumns, Relabel(first \o second)) :
          first \in PairSnapshots, second \in SecondSnapshots}

InvalidTables ==
  {DataFrame({}, <<>>), DataFrame(AllColumns, <<>>)}
  \cup {DataFrame(AllColumns \ missing, Snapshot(1, <<1, 2, 3, 4>>, "flat", "up")) :
          missing \in (SUBSET required_columns) \ {{}}}

DetectorTables == ValidTables \cup InvalidTables

\* the minimum confidence the detector is configured with (MIN_CONFIDENCE)
MinConfidences == {Q(6, 10), Q(1, 3)}
\* what datetime.now() can return while a table with timestamps 1 and 2 is
\* analysed
WallClocks == {2, 3}

(***************************************************************************)
(* RotationDetector.identify_tiers                                         *)
(*                                                                         *)
(* pd.qcut(np.log10(x), q=4, labels=[0, 1, 2, 3]) on the n market caps x   *)
(* of one timestamp.  log10 keeps the order and the ties of positive       *)
(* values, so the caps stand for their logarithms.  The bin edge k is the  *)
(* quantile k/4: the value at position k(n-1)/4 of the ascending caps,     *)
(* interpolated linearly between the two neighbours when the position is   *)
(* not whole.  An edge therefore lies between the cap at the position      *)
(* rounded down and the cap at the position rounded up, and a cap x of the *)
(* group is <= edge k exactly when x <= the cap at the position rounded    *)
(* down.  The bins are [e0, e1], (e1, e2], (e2, e3], (e3, e4] and carry    *)
(* the labels 0, 1, 2, 3 in this order.  Two equal edges make qcut raise   *)
(* ValueError ("Bin edges must be unique").                                *)
(***************************************************************************)
\* the value at 0-based position j of the ascending sort of the list x
Sorted(x, j) ==
  CHOOSE v \in Range(x) :
    /\ Cardinality({i \in 1..Len(x) : x[i] < v}) <= j
    /\ Cardinality({i \in 1..Len(x) : x[i] <= v}) > j

EdgeBelow(x, k) == Sorted(x, (k * (Len(x) - 1)) \div MAX_TIERS)
EdgeAbove(x, k) == Sorted(x, (k * (Len(x) - 1) + MAX_TIERS - 1) \div MAX_TIERS)

\* edges k and k+1 coincide: the sorted caps are constant between them
DuplicateEdges(x) ==
  \E k \in 0..(MAX_TIERS - 1) : EdgeBelow(x, k) = EdgeAbove(x, k + 1)

\* the label of the value v of the list x
qcut(x, v) ==
  IF v <= EdgeBelow(x, 1) THEN 0
  ELSE IF v <= EdgeBelow(x, 2) THEN 1
  ELSE IF v <= EdgeBelow(x, 3) THEN 2
  ELSE 3

\* df.groupby('timestamp')['market_cap']: the caps of the rows of one timestamp
GroupCaps(rows, ts) ==
  LET group == SelectSeq(rows, LAMBDA r : r.timestamp = ts)
  IN  [i \in 1..Len(group) |-> group[i].market_cap]

WithTier(r, tier) ==
  [timestamp |-> r.timestamp, index |-> r.index, id |-> r.id,
   market_cap |-> r.market_cap, total_volume |-> r.total_volume,
   price_change_percentage_24h |-> r.price_change_percentage_24h,
   tier |-> tier]

NotRaised == "none"
EmptyError == "ValueError: Empty DataFrame provided"
MissingError == "ValueError: Missing required columns"
EdgesError == "ValueError: Bin edges must be unique"

\* fault injection: no validation of the input
identify_tiers_unvalidated(market_data) ==
  LET rows == market_data.rows
      stamps == {rows[i].timestamp : i \in 1..Len(rows)}
  IN  IF \E ts \in stamps : DuplicateEdges(GroupCaps(rows, ts))
      THEN [raised |-> EdgesError, df |-> <<>>]
      ELSE [raised |-> NotRaised,
            df |-> [i \in 1..Len(rows) |->
                      WithTier(rows[i],
                               qcut(GroupCaps(rows, rows[i].timestamp),
                                    rows[i].market_cap))]]

identify_tiers(market_data) ==
  IF market_data.rows = <<>> \/ market_data.columns = {}
  THEN [raised |-> EmptyError, df |-> <<>>]
  ELSE IF required_columns \ market_data.columns # {}
  THEN [raised |-> MissingError, df |-> <<>>]
  ELSE
  LET rows == market_data.rows
      stamps == {rows[i].timestamp : i \in 1..Len(rows)}
  IN  IF \E ts \in stamps : DuplicateEdges(GroupCaps(rows, ts))
      THEN [raised |-> EdgesError, df |-> <<>>]
      ELSE [raised |-> NotRaised,
            df |-> [i \in 1..Len(rows) |->
                      WithTier(rows[i],
                               qcut(GroupCaps(rows, rows[i].timestamp),
                                    rows[i].market_cap))]]

(***************************************************************************)
(* RotationDetector.calculate_tier_metrics, detect_volume_anomalies and    *)
(* calculate_tier_correlations.  Each takes the rows of one tier over the  *)
(* whole table, all timestamps together.                                   *)
(***************************************************************************)
\* tiered_data[tiered_data['tier'] == tier]
TierRows(df, tier) == SelectSeq(df, LAMBDA r : r.tier = tier)

\* the 'volatility' entry (a standard deviation) is not represented; nothing
\* reads it
calculate_tier_metrics(df) ==
  [tier \in Tiers |->
     LET tier_data == TierRows(df, tier)
     IN  [avg_volume |->
            FMean([i \in 1..Len(tier_data) |-> R(tier_data[i].total_volume)]),
          avg_mcap |->
            FMean([i \in 1..Len(tier_data) |-> R(tier_data[i].market_cap)]),
          volume_mcap_ratio |->
            FMean([i \in 1..Len(tier_data) |->
                     FDiv(R(tier_data[i].total_volume), R(tier_data[i].market_cap))]),
          assets_count |-> Len(tier_data)]]

\* np.mean(stats.zscore(v)): each score is (v[i] - mean) / std with the
\* population standard deviation.  With std = 0 every score is 0 / 0 = NaN;
\* otherwise the mean of the scores is the mean of the deviations (which is
\* 0) divided by std.
ZScoreMean(v) ==
  LET mean == FMean(v)
      deviations == [i \in 1..Len(v) |-> RSub(v[i], mean)]
  IN  IF \A i \in 1..Len(v) : deviations[i] = R(0) THEN NaN
      ELSE FMean(deviations)

detect_volume_anomalies(df) ==
  [tier \in Tiers |->
     LET tier_data == TierRows(df, tier)
     IN  IF tier_data # <<>>
         THEN ZScoreMean([i \in 1..Len(tier_data) |-> R(tier_data[i].total_volume)])
         ELSE R(0)]

RECURSIVE SumFn(_)
SumFn(f) ==
  IF DOMAIN f = {} THEN 0
  ELSE LET x == CHOOSE x \in DOMAIN f : TRUE
       IN  f[x] + SumFn([y \in DOMAIN f \ {x} |-> f[y]])

ISqrt(m) == CHOOSE k \in 0..m : k * k = m

\* a.corr(b) of two Series of 24h changes: the Series are aligned on their
\* index labels first (inner join; a label held several times pairs every
\* occurrence on one side with every occurrence on the other), then the
\* Pearson coefficient of the aligned pairs is taken.  No pair, or a side
\* that does not vary, gives NaN.
Corr(a, b) ==
  LET pairs == {p \in (1..Len(a)) \X (1..Len(b)) : a[p[1]].index = b[p[2]].index}
      n == Cardinality(pairs)
      x(p) == a[p[1]].price_change_percentage_24h
      y(p) == b[p[2]].price_change_percentage_24h
      sx == SumFn([p \in pairs |-> x(p)])
      sy == SumFn([p \in pairs |-> y(p)])
      sxx == SumFn([p \in pairs |-> x(p) * x(p)])
      syy == SumFn([p \in pairs |-> y(p) * y(p)])
      sxy == SumFn([p \in pairs |-> x(p) * y(p)])
      cov == n * sxy - sx * sy
      vx == n * sxx - sx * sx
      vy == n * syy - sy * sy
  IN  IF n = 0 \/ vx = 0 \/ vy = 0 THEN NaN
      ELSE Q(cov, ISqrt(vx * vy))

\* s[:n]
Head_(s, n) == SubSeq(s, 1, n)

\* the ordered pairs (tier1, tier2) in the order of the two nested loops
TierPairs ==
  [k \in 1..(MAX_TIERS * MAX_TIERS) |-> <<(k - 1) \div MAX_TIERS, (k - 1) % MAX_TIERS>>]

\* fault injection: the correlation stored without the pd.notna test
CorrelationStepUnguarded(df, correlations_, tier1, tier2) ==
  LET tier1_returns == TierRows(df, tier1)
      tier2_returns == TierRows(df, tier2)
      min_len == IF Len(tier1_returns) <= Len(tier2_returns)
                 THEN Len(tier1_returns) ELSE Len(tier2_returns)
      correlation == Corr(Head_(tier1_returns, min_len), Head_(tier2_returns, min_len))
  IN  IF tier1 # tier2 /\ tier1_returns # <<>> /\ tier2_returns # <<>>
      THEN [correlations_ EXCEPT ![<<tier1, tier2>>] = correlation,
                                 ![<<tier2, tier1>>] = correlation]
      ELSE correlations_

\* the body of the two nested loops for one (tier1, tier2)
CorrelationStep(df, correlations_, tier1, tier2) ==
  LET tier1_returns == TierRows(df, tier1)
      tier2_returns == TierRows(df, tier2)
      min_len == IF Len(tier1_returns) <= Len(tier2_returns)
                 THEN Len(tier1_returns) ELSE Len(tier2_returns)
      correlation == Corr(Head_(tier1_returns, min_len), Head_(tier2_returns, min_len))
  IN  IF tier1 # tier2 /\ tier1_returns # <<>> /\ tier2_returns # <<>>
         /\ ~IsNaN(correlation)
      THEN [correlations_ EXCEPT ![<<tier1, tier2>>] = correlation,
                                 ![<<tier2, tier1>>] = correlation]
      ELSE correlations_

RECURSIVE CorrelationLoop(_, _, _)
CorrelationLoop(df, correlations_, k) ==
  IF k > Len(TierPairs) THEN correlations_
  ELSE CorrelationLoop(df,
         CorrelationStep(df, correlations_, TierPairs[k][1], TierPairs[k][2]),
         k + 1)

calculate_tier_correlations(df) ==
  CorrelationLoop(df, [p \in Tiers \X Tiers |-> R(1)], 1)

(***************************************************************************)
(* RotationDetector.generate_rotation_signals                              *)
(***************************************************************************)
\* fault injection: the source ratio not tested before dividing
relative_strength_unguarded(from_ratio, to_ratio) == FDiv(to_ratio, from_ratio)

\* lines 162-169: the guard against a zero source ratio
relative_strength(from_ratio, to_ratio) ==
  IF FGt(from_ratio, R(0)) THEN FDiv(to_ratio, from_ratio) ELSE R(0)

\* fault injection: a signal emitted at the threshold as well
MeetsThresholdInclusive(confidence, threshold) ==
  ~IsNaN(confidence) /\ RLe(threshold, confidence)

\* line 179: confidence > self.min_confidence
MeetsThreshold(confidence, threshold) == FGt(confidence, threshold)

\* the confidence factors of one ordered pair of tiers (lines 158-176)
Evaluate(metrics, anomalies, correlations_, from_tier, to_tier) ==
  LET volume_factor == FSub(anomalies[to_tier], anomalies[from_tier])
      correlation_factor == correlations_[<<from_tier, to_tier>>]
      strength == relative_strength(metrics[from_tier].volume_mcap_ratio,
                                    metrics[to_tier].volume_mcap_ratio)
  IN  [from_tier |-> from_tier, to_tier |-> to_tier,
       volume_factor |-> volume_factor,
       correlation_factor |-> correlation_factor,
       relative_strength |-> strength,
       confidence |-> FMean(<<volume_factor, correlation_factor, strength>>)]

RotationSignal(e, now) ==
  [timestamp |-> now, from_tier |-> e.from_tier, to_tier |-> e.to_tier,
   confidence |-> e.confidence, signal_type |-> "tier_rotation",
   metrics |-> [volume_factor |-> e.volume_factor,
                correlation |-> e.correlation_factor,
                relative_strength |-> e.relative_strength]]

\* the whole call on market_data, with datetime.now() returning now
generate_rotation_signals(market_data, threshold, now) ==
  LET tiered == identify_tiers(market_data)
      metrics == calculate_tier_metrics(tiered.df)
      anomalies == detect_volume_anomalies(tiered.df)
      correlations_ == calculate_tier_correlations(tiered.df)
      pairs == SelectSeq(TierPairs, LAMBDA p : p[1] # p[2])
      evaluated == [k \in 1..Len(pairs) |->
                      Evaluate(metrics, anomalies, correlations_, pairs[k][1], pairs[k][2])]
      emitted == SelectSeq(evaluated, LAMBDA e : MeetsThreshold(e.confidence, threshold))
  IN  IF tiered.raised # NotRaised
      THEN [raised |-> tiered.raised, tiered_data |-> <<>>, tier_metrics |-> <<>>,
            volume_anomalies |-> <<>>, correlations |-> <<>>, evaluations |-> <<>>,
            signals |-> <<>>]
      ELSE [raised |-> NotRaised, tiered_data |-> tiered.df, tier_metrics |-> metrics,
            volume_anomalies |-> anomalies, correlations |-> correlations_,
            evaluations |-> evaluated,
            signals |-> [k \in 1..Len(emitted) |-> RotationSignal(emitted[k], now)]]

(***************************************************************************)
(* A caller builds a detector and calls generate_rotation_signals once on  *)
(* a table.  The engine is not involved and keeps its initial state.       *)
(***************************************************************************)
InitDetector ==
  /\ TIER_PARAMS = DefaultTierParams
  /\ initial_capital = R(DefaultInitialCapital)
  /\ current_capital = R(DefaultInitialCapital)
  /\ max_position_size = Q(1, 10)
  /\ positions = <<>>
  /\ closed_trades = <<>>
  /\ performance_metrics = EmptyDict
  /\ table = <<>>
  /\ sigs = <<>>
  /\ pc = "detector"
  /\ historical_data = <<>>
  /\ signals = <<>>
  /\ timestamp = NoTime
  /\ sig_idx = 0
  /\ result = EmptyDict
  /\ next_id = 1
  /\ calls = <<>>
  /\ last_entry = None
  /\ runs = 0
  /\ applied = <<>>
  /\ run_input = None
  /\ first_run = None
  /\ market_table \in DetectorTables
  /\ min_confidence \in MinConfidences
  /\ volume_threshold = R(2)
  /\ correlation_threshold = Q(7, 10)
  /\ det_pc = "idle"
  /\ det_raised = NotRaised
  /\ tiered_data = <<>>
  /\ tier_metrics = <<>>
  /\ volume_anomalies = <<>>
  /\ correlations = <<>>
  /\ evaluations = <<>>
  /\ det_signals = <<>>
  /\ wall_clock = NoTime
  /\ ApiIdle

nondetector == <<api, config, engine, locals, performance_metrics, table, sigs, pc, timestamp,
                 sig_idx, result, next_id, calls, last_entry, runs, applied, run_input,
                 first_run>>

GenerateCall(now) ==
  LET g == generate_rotation_signals(market_table, min_confidence, now)
  IN  /\ det_pc' = IF g.raised = NotRaised THEN "returned" ELSE "raised"
      /\ det_raised' = g.raised
      /\ tiered_data' = g.tiered_data
      /\ tier_metrics' = g.tier_metrics
      /\ volume_anomalies' = g.volume_anomalies
      /\ correlations' = g.correlations
      /\ evaluations' = g.evaluations
      /\ det_signals' = g.signals
      /\ wall_clock' = IF g.signals = <<>> THEN wall_clock ELSE now
      /\ UNCHANGED <<market_table, thresholds, nondetector>>

\* generate_rotation_signals returns its list
GenerateSignals ==
  /\ det_pc = "idle"
  /\ identify_tiers(market_table).raised = NotRaised
  /\ \E now \in WallClocks : GenerateCall(now)

\* generate_rotation_signals raises what identify_tiers raised; the clock is
\* not read
GenerateSignalsRaises ==
  /\ det_pc = "idle"
  /\ identify_tiers(market_table).raised # NotRaised
  /\ GenerateCall(NoTime)

NextDetector == GenerateSignals \/ GenerateSignalsRaises
SpecDetector == InitDetector /\ [][NextDetector]_vars

(***************************************************************************)
(* CoinGeckoAPI (src/coingecko_api.py): the session held by one client and *)
(* the calls made on it.  A ClientSession object is the number it was      *)
(* constructed as.  A reply is what session.get gave: a response with its  *)
(* HTTP status, or a failure of the transport, raised inside the try.      *)
(***************************************************************************)
Replies == {[failed |-> FALSE, status |-> 200], [failed |-> FALSE, status |-> 429],
            [failed |-> TRUE, status |-> 0]}
NoReply == [failed |-> FALSE, status |-> 0]

MaxApiCalls == 3

InitApi ==
  /\ TIER_PARAMS = DefaultTierParams
  /\ initial_capital = R(DefaultInitialCapital)
  /\ current_capital = R(DefaultInitialCapital)
  /\ max_position_size = Q(1, 10)
  /\ positions = <<>>
  /\ closed_trades = <<>>
  /\ performance_metrics = EmptyDict
  /\ table = <<>>
  /\ sigs = <<>>
  /\ pc = "api"
  /\ historical_data = <<>>
  /\ signals = <<>>
  /\ timestamp = NoTime
  /\ sig_idx = 0
  /\ result = EmptyDict
  /\ next_id = 1
  /\ calls = <<>>
  /\ last_entry = None
  /\ runs = 0
  /\ applied = <<>>
  /\ run_input = None
  /\ first_run = None
  /\ DetectorIdle
  /\ ApiIdle

nonapi == <<config, engine, locals, performance_metrics, table, sigs, detector, pc,
            timestamp, sig_idx, result, next_id, calls, last_entry, runs, applied,
            run_input, first_run>>

\* fault injection: a new ClientSession whether or not one is held
init_session_replacing ==
  [session |-> sessions_made + 1, sessions_made |-> sessions_made + 1]

\* _init_session (lines 21-24): the session and the count after the call
init_session ==
  IF session = NoSession
  THEN [session |-> sessions_made + 1, sessions_made |-> sessions_made + 1]
  ELSE [session |-> session, sessions_made |-> sessions_made]

\* close (lines 26-30)
close_session ==
  IF session # NoSession
  THEN [session |-> NoSession, closed_sessions |-> closed_sessions \cup {session}]
  ELSE [session |-> session, closed_sessions |-> closed_sessions]

\* what a call gave its caller: raised or returned, the value returned
\* ("none", "data", or "empty" for an empty DataFrame or dict), and what the
\* exception's message names (status 0: no status)
Logged(op, reply, raised, returned) ==
  api_log' = Append(api_log, [op |-> op, reply |-> reply, raised |-> raised,
                              returned |-> returned,
                              message |-> [status |-> 0, rate_limit |-> FALSE]])

\* the body shared by get_historical_data (lines 43-72), get_market_chart
\* (lines 85-115) and get_global_data (lines 124-136): a failure inside the
\* try is logged and raised again, a status other than 200 is logged and the
\* empty value returned
Request(op, reply) ==
  /\ session' = init_session.session
  /\ sessions_made' = init_session.sessions_made
  /\ Logged(op, reply, reply.failed,
            IF reply.failed THEN "none" ELSE IF reply.status # 200 THEN "empty" ELSE "data")
  /\ UNCHANGED <<closed_sessions, in_context, nonapi>>

GetHistoricalData ==
  /\ Len(api_log) < MaxApiCalls
  /\ \E reply \in Replies : Request("get_historical_data", reply)

GetMarketChart ==
  /\ Len(api_log) < MaxApiCalls
  /\ \E reply \in Replies : Request("get_market_chart", reply)

GetGlobalData ==
  /\ Len(api_log) < MaxApiCalls
  /\ \E reply \in Replies : Request("get_global_data", reply)

InitSession ==
  /\ Len(api_log) < MaxApiCalls
  /\ session' = init_session.session
  /\ sessions_made' = init_session.sessions_made
  /\ Logged("_init_session", NoReply, FALSE, "none")
  /\ UNCHANGED <<closed_sessions, in_context, nonapi>>

Close ==
  /\ Len(api_log) < MaxApiCalls
  /\ session' = close_session.session
  /\ closed_sessions' = close_session.closed_sessions
  /\ Logged("close", NoReply, FALSE, "none")
  /\ UNCHANGED <<sessions_made, in_context, nonapi>>

\* __aenter__ (lines 138-141) and __aexit__ (lines 143-145)
AsyncEnter ==
  /\ ~in_context
  /\ Len(api_log) < MaxApiCalls
  /\ session' = init_session.session
  /\ sessions_made' = init_session.sessions_made
  /\ in_context' = TRUE
  /\ Logged("__aenter__", NoReply, FALSE, "none")
  /\ UNCHANGED <<closed_sessions, nonapi>>

AsyncExit ==
  /\ in_context
  /\ Len(api_log) < MaxApiCalls
  /\ session' = close_session.session
  /\ closed_sessions' = close_session.closed_sessions
  /\ in_context' = FALSE
  /\ Logged("__aexit__", NoReply, FALSE, "none")
  /\ UNCHANGED <<sessions_made, nonapi>>

NextApi ==
  \/ InitSession
  \/ Close
  \/ GetHistoricalData
  \/ GetMarketChart
  \/ GetGlobalData
  \/ AsyncEnter
  \/ AsyncExit

SpecApi == InitApi /\ [][NextApi]_vars

(***************************************************************************)
(* Properties                                                              *)
(***************************************************************************)
Held == Range(positions) \cup Range(closed_trades)
HeldNext == Range(positions') \cup Range(closed_trades')
LastCall == calls[Len(calls)]
\* this step makes a call of op; Called: and the call returned
Calls(op) == Len(calls') = Len(calls) + 1 /\ calls'[Len(calls')].op = op
Called(op) == Calls(op) /\ ~calls'[Len(calls')].raised
ExitSet(t) == t.exit_time # NoTime /\ t.exit_price # None /\ t.pnl # None
ExitUnset(t) == t.exit_time = NoTime /\ t.exit_price = None /\ t.pnl = None

\* C1: when run_backtest returns no trade is left open: every position still
\* open after the last timestamp has been closed at the last observed price of
\* its asset and is in the returned trades with its exit fields set.
C1_NoTradeLeftOpen ==
  pc = "returned" =>
    /\ positions = <<>>
    /\ \A t \in Range(result.trades) : ExitSet(t)

\* C2: a trade has at most one exit event.  It is created open with its exit
\* fields unset; a step changes a trade only by an update_positions call
\* setting status ("closed" or "stopped"), exit_time, exit_price and pnl
\* together and nothing else; a trade that is not open never changes again.
C2_Step ==
  /\ \A t \in Held : \A u \in HeldNext :
       u.id = t.id /\ u # t =>
         /\ t.status = "open"
         /\ Calls("update_positions")
         /\ u.status \in {"closed", "stopped"}
         /\ ExitSet(u)
         /\ u = [t EXCEPT !.status = u.status, !.exit_time = u.exit_time,
                          !.exit_price = u.exit_price, !.pnl = u.pnl]
  /\ \A u \in HeldNext :
       (\A t \in Held : t.id # u.id) => u.status = "open" /\ ExitUnset(u)
  /\ \A u \in HeldNext : u.status = "open" <=> ExitUnset(u)

C2_OneExit == [][C2_Step]_vars

\* a trade closed at one call of the run has been through a later call
C2_Witness ==
  /\ pc = "loop"
  /\ closed_trades # <<>>
  /\ calls # <<>> /\ LastCall.op = "enter_position"

\* C3: after every enter_position and update_positions call each trade of the
\* run is in exactly one collection: positions holds open trades only,
\* closed_trades holds closed or stopped trades only.
C3_Partition ==
  /\ \A t \in Range(positions) : t.status = "open"
  /\ \A t \in Range(closed_trades) : t.status \in {"closed", "stopped"}
  /\ \A t \in Range(positions) : \A u \in Range(closed_trades) : t.id # u.id

\* the trades a returning update_positions call moved to closed_trades
NewlyClosed == SubSeq(closed_trades', Len(closed_trades) + 1, Len(closed_trades'))
RECURSIVE ExpectedCredits(_)
ExpectedCredits(ts) ==
  IF ts = <<>> THEN R(0)
  ELSE LET t == Head(ts)
           ret == RDiv(RSub(t.exit_price, t.entry_price), t.entry_price)
       IN RAdd(RMul(t.position_size, RAdd(R(1), ret)), ExpectedCredits(Tail(ts)))

\* C4: a closed trade's pnl is (exit_price - entry_price) / entry_price, and
\* an update_positions call grows current_capital by exactly the sum of
\* position_size * (1 + pnl) over the trades it closes.
C4_Step ==
  /\ \A t \in Range(closed_trades') :
       t.pnl = RDiv(RSub(t.exit_price, t.entry_price), t.entry_price)
  /\ Called("update_positions") =>
       /\ Len(closed_trades') >= Len(closed_trades)
       /\ SubSeq(closed_trades', 1, Len(closed_trades)) = closed_trades
       /\ current_capital' = RAdd(current_capital, ExpectedCredits(NewlyClosed))

C4_PnlAndCredit == [][C4_Step]_vars

\* two trades were closed by the same update_positions call
C4_Witness ==
  \E i, j \in 1..Len(closed_trades) :
    /\ i < j
    /\ closed_trades[i].exit_time = closed_trades[j].exit_time
    /\ closed_trades[i].status # closed_trades[j].status

\* C5: enter_position is atomic with respect to capital.  When the computed
\* size exceeds current_capital the call returns no trade, changes nothing and
\* does not raise; otherwise it appends exactly one open trade of that size to
\* positions, debits current_capital by that size and leaves closed_trades.
C5_Step ==
  Calls("enter_position") =>
    LET e == last_entry' IN
      /\ ~calls'[Len(calls')].raised
      /\ pc' # "raised"
      /\ IF RLt(current_capital, e.position_size)
         THEN /\ e.returned = None
              /\ UNCHANGED engine
         ELSE /\ Len(positions') = Len(positions) + 1
              /\ SubSeq(positions', 1, Len(positions)) = positions
              /\ e.returned = <<positions'[Len(positions')]>>
              /\ e.returned[1].status = "open"
              /\ e.returned[1].position_size = e.position_size
              /\ current_capital' = RSub(current_capital, e.position_size)
              /\ closed_trades' = closed_trades

C5_EntryAtomic == [][C5_Step]_vars

\* an enter_position call was rejected for lack of capital
C5_Witness ==
  /\ last_entry # None
  /\ last_entry.returned = None
  /\ RLt(current_capital, last_entry.position_size)

\* the default engine (capital 100000, fraction 0.1, tier-0 adjustment 1) has
\* just made its first two enter_position calls, in succession, each for a
\* tier-0 signal of confidence 0.9
C6_TwoEntries ==
  /\ initial_capital = R(DefaultInitialCapital)
  /\ max_position_size = Q(1, 10)
  /\ TIER_PARAMS[0].position_size_adjustment = R(1)
  /\ Len(calls) = 3
  /\ calls[2].op = "enter_position" /\ calls[3].op = "enter_position"
  /\ \A i \in {1, 2} :
       /\ CurrentSignals[i].to_tier = 0
       /\ CurrentSignals[i].confidence = Q(9, 10)

C7_NothingCarriedOver ==
  (pc = "returned" /\ runs >= 2) =>
    /\ current_capital = result.final_capital
    /\ closed_trades = result.trades
    /\ performance_metrics = result.metrics

SameTrades(s1, s2) ==
  /\ Len(s1) = Len(s2)
  /\ \A i \in 1..Len(s1) : TradeEq(s1[i], s2[i])
SameOutcome(o1, o2) ==
  /\ o1.raised = o2.raised
  /\ ~o1.raised =>
       /\ SameTrades(o1.trades, o2.trades)
       /\ o1.final_capital = o2.final_capital
\* a later run on the same engine has ended, given the first run's signals
\* (the table is the same one)
RepeatedRun ==
  /\ pc \in {"returned", "raised"}
  /\ runs >= 2
  /\ run_input.signals = first_run.input.signals
ThisOutcome == Outcome(pc = "raised", result)

\* C8 as stated: identical table and signals give an identical trade list and
\* final capital, on the same engine too.
C8_SameInputSameOutcome ==
  RepeatedRun => SameOutcome(first_run.outcome, ThisOutcome)

\* C8: run_backtest is a function of the table, the signals and the
\* configuration it reads (the engine's max_position_size and the module-level
\* TIER_PARAMS): a repeated run with all three unchanged ends the same way,
\* with the same trade list and final capital.
C8_Deterministic ==
  (/\ RepeatedRun
   /\ run_input.TIER_PARAMS = first_run.input.TIER_PARAMS
   /\ run_input.max_position_size = first_run.input.max_position_size)
    => SameOutcome(first_run.outcome, ThisOutcome)

\* a run that closed trades has been repeated on the same engine and returned
C8_Witness ==
  /\ RepeatedRun
  /\ pc = "returned"
  /\ run_input.TIER_PARAMS = first_run.input.TIER_PARAMS
  /\ run_input.max_position_size = first_run.input.max_position_size
  /\ result.trades # <<>>

RECURSIVE SumSizes(_)
SumSizes(ts) ==
  IF ts = <<>> THEN R(0) ELSE RAdd(Head(ts).position_size, SumSizes(Tail(ts)))
\* the capital an entry must have seen: the initial capital, less every
\* earlier entry of the run, plus the credit of every trade closed at a
\* timestamp up to and including the entry's own
CapitalSeenBy(t) ==
  LET earlier == SelectSeq(positions \o closed_trades, LAMBDA u : u.id < t.id)
      credited == SelectSeq(closed_trades, LAMBDA u : u.exit_time <= t.entry_time)
  IN  RAdd(RSub(initial_capital, SumSizes(earlier)), ExpectedCredits(credited))
TableKeys == {r.timestamp : r \in Range(table)}

\* C9: whatever the row order of the table, the timestamps are processed in
\* ascending order, none skipped; within a timestamp the update_positions
\* call comes first and the entries follow it, so every entry is sized from
\* the capital that includes that step's credits and all earlier effects
\* (with the fraction and tier adjustment the run started with).
C9_StepOrder ==
  /\ \A i, j \in 1..Len(calls) : i < j => calls[i].timestamp <= calls[j].timestamp
  /\ \A j \in 1..Len(calls) :
       calls[j].op = "enter_position" =>
         \E i \in 1..(j - 1) :
           /\ calls[i].op = "update_positions"
           /\ calls[i].timestamp = calls[j].timestamp
           /\ \A k \in (i + 1)..j : calls[k].op = "enter_position"
  /\ \A k \in TableKeys :
       (calls # <<>> /\ k <= LastCall.timestamp) =>
         \E i \in 1..Len(calls) :
           calls[i].op = "update_positions" /\ calls[i].timestamp = k
  /\ \A t \in Held :
       t.position_size =
         RMul(RMul(RMul(CapitalSeenBy(t), run_input.max_position_size),
                   run_input.TIER_PARAMS[t.tier].position_size_adjustment),
              RMin(RMax(t.signal_confidence, Q(3, 10)), R(1)))

\* the table was given latest rows first, and a position was entered at a
\* timestamp whose update_positions call had just credited a closed trade
C9_Witness ==
  /\ table[1].timestamp > table[Len(table)].timestamp
  /\ \E t \in Range(positions) : \E u \in Range(closed_trades) :
       t.entry_time = u.exit_time

\* C10: for a signal of the current timestamp run_backtest enters at most one
\* position, on the row of that timestamp with the signal's destination tier
\* and the highest market cap, the first such row on a tie; with no row of
\* that tier the signal changes nothing, and enter_position is called only
\* while current_capital is positive.
C10_Step ==
  (/\ pc = "loop" /\ pc' = "loop"
   /\ timestamp # NoTime /\ timestamp' = timestamp
   /\ sig_idx' = sig_idx + 1) =>
    LET now == SelectSeq(run_input.signals, LAMBDA x : x.timestamp = timestamp)
        s == now[sig_idx]
        cands == {i \in 1..Len(table) :
                    table[i].timestamp = timestamp /\ table[i].tier = s.to_tier}
        best == {i \in cands :
                   \A j \in cands : table[j].market_cap <= table[i].market_cap}
        pick == table[SetMin(best)]
        new == positions'[Len(positions')]
    IN  /\ sig_idx <= Len(now)
        /\ closed_trades' = closed_trades
        /\ IF cands = {} \/ ~RLt(R(0), current_capital)
           THEN UNCHANGED <<engine, calls>>
           ELSE /\ Calls("enter_position")
                /\ \/ UNCHANGED <<positions, current_capital>>
                   \/ /\ Len(positions') = Len(positions) + 1
                      /\ SubSeq(positions', 1, Len(positions)) = positions
                      /\ new.coin_id = pick.coin_id
                      /\ new.tier = s.to_tier
                      /\ new.entry_price = pick.close
                      /\ new.entry_time = timestamp
                      /\ new.signal_confidence = s.confidence

QuotedPrice(market_data, t) ==
  SelectSeq(market_data, LAMBDA r : r.coin_id = t.coin_id)[1].close
TradeAfter(t) == CHOOSE u \in HeldNext : u.id = t.id

\* C11: in update_positions an open trade whose price is at or below its
\* stop-loss becomes "stopped" even if the price is also at or above its
\* take-profit; a trade whose price is at or above take-profit and above
\* stop-loss becomes "closed"; a trade whose price lies strictly between the
\* two stays open with every field unchanged, and the capital is unchanged
\* when no trade is hit.
C11_Step ==
  Called("update_positions") =>
    LET md == calls'[Len(calls')].market_data
        open == {t \in Range(positions) : t.status = "open"}
        Stop(t) == RLe(QuotedPrice(md, t), t.stop_loss)
        Target(t) == RLe(t.take_profit, QuotedPrice(md, t))
    IN  /\ \A t \in open :
             /\ Stop(t) =>
                  /\ TradeAfter(t).status = "stopped"
                  /\ TradeAfter(t) \in Range(closed_trades')
             /\ (~Stop(t) /\ Target(t)) =>
                  /\ TradeAfter(t).status = "closed"
                  /\ TradeAfter(t) \in Range(closed_trades')
             /\ (~Stop(t) /\ ~Target(t)) => t \in Range(positions')
        /\ (\A t \in open : ~Stop(t) /\ ~Target(t)) => UNCHANGED engine

C11_StopFirst == [][C11_Step]_vars

\* a trade was stopped at a price that also met its take-profit
C11_Witness ==
  \E t \in Range(closed_trades) :
    /\ t.status = "stopped"
    /\ RLe(t.take_profit, t.exit_price)

\* the volatility after the clamp into [0.02, 0.15]
ClampedVolatility(volatility) ==
  IF RLt(volatility, Q(2, 100)) THEN Q(2, 100)
  ELSE IF RLt(Q(15, 100), volatility) THEN Q(15, 100)
  ELSE volatility

\* C20: calculate_risk_levels clamps the volatility into [0.02, 0.15] (zero
\* and negative values become 0.02) and sets stop-loss to
\* entry * (1 - stop multiplier * clamped) and take-profit to
\* entry * (1 + target multiplier * clamped); for tier 1 (0.10, 0.30), entry
\* 100 and clamped volatility 0.02 that is 99.80 and 100.60, and a later
\* price of 100.70 closes the trade as "closed" with pnl 0.007.
C20_Step ==
  /\ (Calls("enter_position") /\ last_entry'.returned # None) =>
       LET a == calls'[Len(calls')].args
           t == last_entry'.returned[1]
           v == ClampedVolatility(a.volatility)
           m == TIER_PARAMS[a.tier]
       IN  /\ RLe(Q(2, 100), v) /\ RLe(v, Q(15, 100))
           /\ RLe(a.volatility, R(0)) => v = Q(2, 100)
           /\ t.stop_loss =
                RMul(a.entry_price, RSub(R(1), RMul(m.stop_loss_multiplier, v)))
           /\ t.take_profit =
                RMul(a.entry_price, RAdd(R(1), RMul(m.take_profit_multiplier, v)))
           /\ (a.tier = 1 /\ a.entry_price = R(100) /\ v = Q(2, 100)) =>
                /\ m.stop_loss_multiplier = Q(10, 100)
                /\ m.take_profit_multiplier = Q(30, 100)
                /\ t.stop_loss = Q(9980, 100)
                /\ t.take_profit = Q(10060, 100)
  /\ Called("update_positions") =>
       \A t \in Range(positions) :
         ( /\ t.status = "open"
           /\ t.stop_loss = Q(9980, 100)
           /\ t.take_profit = Q(10060, 100)
           /\ QuotedPrice(calls'[Len(calls')].market_data, t) = Q(10070, 100) ) =>
           /\ TradeAfter(t).status = "closed"
           /\ TradeAfter(t).pnl = Q(7, 1000)
           /\ TradeAfter(t) \in Range(closed_trades')

C20_RiskLevels == [][C20_Step]_vars

\* the tier-1 trade entered at 100 with levels 99.80 / 100.60 was closed at 100.70
C20_Witness ==
  \E t \in Range(closed_trades) :
    /\ t.tier = 1
    /\ t.entry_price = R(100)
    /\ t.stop_loss = Q(9980, 100)
    /\ t.take_profit = Q(10060, 100)
    /\ t.exit_price = Q(10070, 100)
    /\ t.status = "closed"
    /\ t.pnl = Q(7, 1000)

\* the detector's call has returned / has ended either way
Generated == det_pc = "returned"
Emitted(from_tier, to_tier) ==
  \E s \in Range(det_signals) : s.from_tier = from_tier /\ s.to_tier = to_tier

\* C12: generate_rotation_signals emits no signal whose confidence is less
\* than or equal to the configured minimum: a pair whose confidence equals
\* the threshold is not emitted, nor is a pair whose confidence is NaN.
C12_AboveThreshold ==
  Generated =>
    /\ \A s \in Range(det_signals) :
         ~IsNaN(s.confidence) /\ RLt(min_confidence, s.confidence)
    /\ \A e \in Range(evaluations) :
         (IsNaN(e.confidence) \/ e.confidence = min_confidence) =>
           ~Emitted(e.from_tier, e.to_tier)

\* one pair sits exactly on the threshold, one has no defined confidence,
\* and a signal is emitted for a third
C12_Witness ==
  /\ Generated
  /\ \E e \in Range(evaluations) : e.confidence = min_confidence
  /\ \E e \in Range(evaluations) : IsNaN(e.confidence)
  /\ det_signals # <<>>

\* C13: every signal has from_tier and to_tier in 0..3 and a confidence
\* between 0 and 1 inclusive, the confidence being the arithmetic mean of
\* volume_factor, the correlation cell (from, to) and relative_strength.
C13_ConfidenceInUnitInterval ==
  \A s \in Range(det_signals) :
    /\ s.from_tier \in 0..3
    /\ s.to_tier \in 0..3
    /\ s.metrics.correlation = correlations[<<s.from_tier, s.to_tier>>]
    /\ s.confidence = RDiv(RAdd(RAdd(s.metrics.volume_factor, s.metrics.correlation),
                                s.metrics.relative_strength), R(3))
    /\ RLe(R(0), s.confidence)
    /\ RLe(s.confidence, R(1))

\* C14: every signal carries the timestamp of the market data it was
\* evaluated on, so that run_backtest on the same table, whose loop visits
\* the table's timestamps and keeps the signals with an equal timestamp,
\* matches it to a step.
C14_SignalAtTableTimestamp ==
  \A s \in Range(det_signals) :
    \E r \in Range(market_table.rows) : s.timestamp = r.timestamp

\* the rows of tiered_data at one timestamp
TieredAt(ts) == {r \in Range(tiered_data) : r.timestamp = ts}
TableStamps == {r.timestamp : r \in Range(market_table.rows)}

\* C15: in the output of identify_tiers, at every timestamp the asset with
\* the highest market cap has tier 0 and the asset with the lowest market
\* cap has tier 3.
C15_LargestIsTierZero ==
  Generated =>
    \A ts \in TableStamps :
      \A r \in TieredAt(ts) :
        /\ (\A o \in TieredAt(ts) : o.market_cap <= r.market_cap) => r.tier = 0
        /\ (\A o \in TieredAt(ts) : o.market_cap >= r.market_cap) => r.tier = 3

\* C16: for every timestamp with at least 4 assets, ties included,
\* identify_tiers assigns each asset exactly one tier in 0..3, all four tiers
\* are non-empty, and the assignment depends only on that timestamp's rows.
C16_FourTiers ==
  (det_pc # "idle" /\ det_raised \notin {EmptyError, MissingError}) =>
    \A ts \in TableStamps :
      LET group == SelectSeq(market_table.rows, LAMBDA r : r.timestamp = ts)
      IN  Len(group) >= 4 =>
            /\ Generated
            /\ Cardinality(TieredAt(ts)) = Len(group)
            /\ \A r \in TieredAt(ts) : r.tier \in 0..3
            /\ \A tier \in 0..3 : \E r \in TieredAt(ts) : r.tier = tier
            /\ TieredAt(ts) =
                 Range(identify_tiers(DataFrame(market_table.columns, group)).df)

\* the table is empty, or lacks one of the three required columns
EmptyTable == market_table.rows = <<>> \/ market_table.columns = {}
LacksColumn ==
  \E c \in {"market_cap", "total_volume", "price_change_percentage_24h"} :
    c \notin market_table.columns

\* C17: identify_tiers fails with a validation error when the table is empty
\* or lacks market_cap, total_volume or price_change_percentage_24h, before
\* any tier is computed; generate_rotation_signals on such a table raises
\* the same error and returns no signals.
C17_InvalidTableRejected ==
  (det_pc # "idle" /\ (EmptyTable \/ LacksColumn)) =>
    /\ det_pc = "raised"
    /\ det_raised \in {EmptyError, MissingError}
    /\ identify_tiers(market_table).raised = det_raised
    /\ tiered_data = <<>>
    /\ det_signals = <<>>

\* a table with rows but without a required column was rejected
C17_Witness ==
  /\ det_pc = "raised"
  /\ det_raised = MissingError
  /\ market_table.rows # <<>>
  /\ LacksColumn

\* C18: calculate_tier_correlations returns a 4x4 matrix that is symmetric,
\* has diagonal exactly 1.0, has every cell within [-1, 1] and has no NaN
\* cell, also when a tier is empty or its price changes do not vary: an
\* undefined correlation leaves the default in the cell.
C18_CorrelationMatrix ==
  Generated =>
    /\ DOMAIN correlations = (0..3) \X (0..3)
    /\ \A i \in 0..3 : correlations[<<i, i>>] = R(1)
    /\ \A i \in 0..3 : \A j \in 0..3 :
         /\ correlations[<<i, j>>] = correlations[<<j, i>>]
         /\ ~IsNaN(correlations[<<i, j>>])
         /\ RLe(R(-1), correlations[<<i, j>>])
         /\ RLe(correlations[<<i, j>>], R(1))
         /\ ( \/ i = j
              \/ TierRows(tiered_data, i) = <<>>
              \/ TierRows(tiered_data, j) = <<>> ) => correlations[<<i, j>>] = R(1)

\* a computed correlation stands in the matrix next to defaults kept for
\* empty tiers
C18_Witness ==
  /\ Generated
  /\ \E i \in 0..3 : \E j \in 0..3 : correlations[<<i, j>>] = R(-1)
  /\ \E i \in 0..3 : TierRows(tiered_data, i) = <<>>

\* C19: for every ordered tier pair whose source tier has a volume/market-cap
\* ratio that is zero or undefined (an empty source tier), relative_strength
\* is 0 and no division error is raised; generation goes on over all twelve
\* pairs.
C19_GuardedStrength ==
  /\ det_pc = "raised" => det_raised \in {EmptyError, MissingError, EdgesError}
  /\ Generated =>
       /\ Len(evaluations) = 12
       /\ \A from_tier \in 0..3 : \A to_tier \in (0..3) \ {from_tier} :
            \E e \in Range(evaluations) :
              /\ e.from_tier = from_tier
              /\ e.to_tier = to_tier
              /\ LET from_ratio == tier_metrics[from_tier].volume_mcap_ratio
                 IN  (IsNaN(from_ratio) \/ from_ratio = R(0)) =>
                       e.relative_strength = R(0)

\* one source tier has ratio 0, another is empty, and the destination's
\* ratio is positive
C19_Witness ==
  /\ Generated
  /\ \E e \in Range(evaluations) :
       /\ tier_metrics[e.from_tier].volume_mcap_ratio = R(0)
       /\ FGt(tier_metrics[e.to_tier].volume_mcap_ratio, R(0))
       /\ e.relative_strength = R(0)
  /\ \E e \in Range(evaluations) :
       /\ tier_metrics[e.from_tier].assets_count = 0
       /\ e.relative_strength = R(0)

RECURSIVE SizesOf(_)
SizesOf(ts) == IF ts = <<>> THEN R(0) ELSE RAdd(Head(ts).position_size, SizesOf(Tail(ts)))
RECURSIVE GainsOf(_)
GainsOf(ts) ==
  IF ts = <<>> THEN R(0)
  ELSE RAdd(RMul(Head(ts).position_size, Head(ts).pnl), GainsOf(Tail(ts)))
OpenTrades == SelectSeq(positions, LAMBDA t : t.status = "open")

\* C26: capital is conserved: after every enter_position and update_positions
\* call, current_capital plus the position sizes of the open trades equals
\* initial_capital plus position_size * pnl summed over the closed trades.
C26_CapitalConserved ==
  RAdd(current_capital, SizesOf(OpenTrades))
    = RAdd(initial_capital, GainsOf(closed_trades))

\* C28: run_backtest never raises: every run ends by returning the metrics,
\* the trades and the final capital, also when a trade is open on an asset
\* that a later snapshot or the last row of the table does not hold.
C28_RunReturns ==
  /\ pc # "raised"
  /\ pc = "returned" => DOMAIN result = {"metrics", "trades", "final_capital"}

\* C29: update_positions is all-or-nothing: when the price lookup fails for
\* some open trade, no trade has been changed and positions, closed_trades and
\* current_capital are as before the call; no closed or stopped trade is left
\* in positions.
C29_Step ==
  (Calls("update_positions") /\ calls'[Len(calls')].raised) =>
    /\ positions' = positions
    /\ closed_trades' = closed_trades
    /\ current_capital' = current_capital
    /\ \A t \in Range(positions') : t.status = "open"
C29_AllOrNothing == [][C29_Step]_vars

\* C30: every trade in the list run_backtest returns has an exit_time
\* strictly later than its entry_time, also when a position was opened at the
\* last timestamp and the final update ran over it.
C30_ExitAfterEntry ==
  /\ \A t \in Range(closed_trades) : t.exit_time > t.entry_time
  /\ pc = "returned" =>
       /\ result.trades = closed_trades
       /\ \A t \in Range(result.trades) :
            /\ t.exit_time # NoTime
            /\ t.exit_time > t.entry_time
            /\ RLt(t.stop_loss, t.entry_price) /\ RLt(t.entry_price, t.take_profit)

\* a run returned a closed trade, and the final update ran over a position
\* opened at the last timestamp
C30_Witness ==
  /\ pc = "returned"
  /\ result.trades # <<>>
  /\ \E t \in Range(positions) : t.entry_time = FinalTimestamp
  /\ LastCall.op = "update_positions" /\ LastCall.timestamp = FinalTimestamp

SamePnl(ct) == \A i, j \in 1..Len(ct) : ct[i].pnl = ct[j].pnl

\* C21: calculate_performance_metrics never raises on a division by zero:
\* with no closed trade it returns the empty result, and with closed trades
\* whose pnl values have zero standard deviation (a single closed trade, for
\* one) the Sharpe-like ratio is 0.
C21_NoDivisionByZero ==
  /\ pc = "raised" => LastCall.op = "update_positions" /\ LastCall.raised
  /\ pc = "returned" =>
       /\ closed_trades = <<>> => result.metrics = EmptyDict
       /\ closed_trades # <<>> =>
            /\ result.metrics.sharpe_ratio[2] # 0
            /\ SamePnl(closed_trades) => result.metrics.sharpe_ratio = R(0)
            /\ ~SamePnl(closed_trades) => result.metrics.sharpe_ratio # R(0)
                                            \/ result.metrics.average_return = R(0)

\* a run returned with a single closed trade
C21_Witness ==
  /\ pc = "returned"
  /\ Len(closed_trades) = 1
  /\ result.metrics.sharpe_ratio = R(0)
  /\ result.metrics.average_return # R(0)

TradedTiers == {tier \in Tiers : \E t \in Range(closed_trades) : t.tier = tier}
ClosedIn(tier) == SelectSeq(closed_trades, LAMBDA t : t.tier = tier)
TotalsRight ==
  /\ result.metrics.total_trades = Len(closed_trades)
  /\ result.metrics.final_capital = current_capital
  /\ result.metrics.final_capital = result.final_capital

\* C22 as stated: whenever a trade has been closed the result holds the
\* per-tier breakdown for each of the four tiers, and total_trades and
\* final_capital are the number of closed trades and the engine's capital.
C22_EveryTier ==
  (pc = "returned" /\ closed_trades # <<>>) =>
    /\ DOMAIN result.metrics.tier_return = Tiers
    /\ DOMAIN result.metrics.tier_trades = Tiers
    /\ TotalsRight

\* C22, amended: whenever a trade has been closed the result holds the mean
\* return and the trade count of exactly the tiers that have a closed trade;
\* total_trades is the number of closed trades and final_capital is the
\* engine's current capital and the final_capital run_backtest returns.
C22_TradedTiers ==
  (pc = "returned" /\ closed_trades # <<>>) =>
    /\ DOMAIN result.metrics.tier_return = TradedTiers
    /\ DOMAIN result.metrics.tier_trades = TradedTiers
    /\ \A tier \in TradedTiers :
         /\ result.metrics.tier_trades[tier] = Len(ClosedIn(tier))
         /\ result.metrics.tier_return[tier] = RMean(Pnls(ClosedIn(tier)))
    /\ TotalsRight

\* a run returned with closed trades in tier 0 and none in the other tiers
C22_Witness ==
  /\ pc = "returned"
  /\ closed_trades # <<>>
  /\ TradedTiers = {0}
  /\ DOMAIN result.metrics.tier_return = {0}

\* this step is an apply_optimization_results call; this step is the
\* optimizer handing a combination to the detector
ApplyStep == Len(applied') = Len(applied) + 1
TryStep == applied' = applied /\ thresholds' # thresholds
ParametersOf(params) ==
  <<params.volume_threshold, params.correlation_threshold, params.min_confidence>>

\* C23 as stated: the optimizer does not mutate core state: over
\* optimize_tier_parameters and apply_optimization_results the detector
\* thresholds, the engine's max position fraction and the tier parameters
\* stay what they were, so that applying a result twice is applying it once.
C23_ConfigStep ==
  (ApplyStep \/ TryStep) =>
    /\ thresholds' = thresholds
    /\ max_position_size' = max_position_size
    /\ TIER_PARAMS' = TIER_PARAMS
C23_Step ==
  /\ TryStep =>
       /\ \E params \in ParameterCombinations : thresholds' = ParametersOf(params)
       /\ UNCHANGED <<config, engine, performance_metrics, result>>
  /\ ApplyStep =>
       LET optimization_result == applied'[Len(applied')]
       IN  /\ optimization_result \in OptimizationResults(result)
           /\ thresholds' = ParametersOf(optimization_result.parameters)
           /\ max_position_size' = optimization_result.parameters.position_size_multiplier
           /\ \A tier \in Tiers :
                LET adjustments == optimization_result.tier_adjustments[tier]
                IN  /\ TIER_PARAMS'[tier].position_size_adjustment
                         = adjustments.position_size
                    /\ TIER_PARAMS'[tier].stop_loss_multiplier
                         = RMul(TIER_PARAMS[tier].stop_loss_multiplier,
                                adjustments.stop_loss)
                    /\ TIER_PARAMS'[tier].take_profit_multiplier
                         = RMul(TIER_PARAMS[tier].take_profit_multiplier,
                                adjustments.take_profit)
           /\ UNCHANGED <<engine, performance_metrics, initial_capital, result>>
WithinCapital ==
  /\ run_input # None
  /\ RLe(run_input.max_position_size, R(1))
  /\ \A tier \in Tiers :
       run_input.TIER_PARAMS[tier].position_size_adjustment
         = DefaultTierParams[tier].position_size_adjustment

\* C27 as stated: with a max fraction of at most 1 and the default tier size
\* multipliers every position size is at most max fraction times the capital,
\* so during run_backtest current_capital stays strictly positive after every
\* step and enter_position never rejects for lack of capital.
C27_StaysPositive ==
  (WithinCapital /\ pc \in {"loop", "returned"}) =>
    /\ RLt(R(0), current_capital)
    /\ (calls # <<>> /\ LastCall.op = "enter_position") => last_entry.returned # None

\* C27, amended: under the same conditions every position size is at most max
\* fraction times the capital before the entry, current_capital never becomes
\* negative during run_backtest (it reaches exactly 0 when fraction, tier
\* multiplier and clamped confidence are all 1), and enter_position never
\* rejects for lack of capital.
C27_Step ==
  WithinCapital' =>
    /\ RLe(R(0), current_capital')
    /\ Calls("enter_position") =>
         /\ last_entry'.returned # None
         /\ RLe(last_entry'.position_size, RMul(max_position_size, current_capital))
         /\ RLe(last_entry'.position_size, current_capital)
         /\ current_capital' = RSub(current_capital, last_entry'.position_size)
C27_NeverNegative == [][C27_Step]_vars

\* an entry at fraction 1, tier 0 and confidence 1 has taken the whole capital
C27_Witness ==
  /\ WithinCapital
  /\ pc = "loop"
  /\ current_capital = R(0)
  /\ calls # <<>> /\ LastCall.op = "enter_position"
  /\ last_entry.returned # None
  /\ last_entry.position_size = initial_capital

\* C24: when the HTTP response status is not 200 (429, say),
\* get_historical_data and get_market_chart raise an exception whose message
\* names the status code and the rate limit; they return no normal value.
C24_ErrorStatusRaises ==
  \A i \in DOMAIN api_log :
    LET c == api_log[i]
    IN  (/\ c.op \in {"get_historical_data", "get_market_chart"}
         /\ ~c.reply.failed
         /\ c.reply.status # 200) =>
          /\ c.raised
          /\ c.returned = "none"
          /\ c.message.status = c.reply.status
          /\ c.message.rate_limit

ApiCalls(ops) == Len(api_log') = Len(api_log) + 1 /\ api_log'[Len(api_log')].op \in ops
Opening == {"_init_session", "get_historical_data", "get_market_chart", "get_global_data",
            "__aenter__"}
Closing == {"close", "__aexit__"}

\* C25: the session goes none -> open -> none: a new client holds no
\* session; _init_session, directly or through a data call or the entry of
\* the async context, opens a session only when none is held and never
\* replaces one; close and the exit of the context close the session held and
\* leave none, and change nothing when none is held; a closed client can be
\* opened again.
C25_Step ==
  /\ api_log = <<>> => session = NoSession /\ sessions_made = 0
  /\ session # NoSession => session = sessions_made /\ session \notin closed_sessions
  /\ closed_sessions = (1..sessions_made) \ {session}
  /\ ApiCalls(Opening) =>
       /\ session' # NoSession
       /\ session # NoSession => session' = session /\ sessions_made' = sessions_made
       /\ session = NoSession => session' \notin closed_sessions
                                   /\ sessions_made' = sessions_made + 1
       /\ closed_sessions' = closed_sessions
  /\ ApiCalls(Closing) =>
       /\ session' = NoSession
       /\ sessions_made' = sessions_made
       /\ session # NoSession => closed_sessions' = closed_sessions \cup {session}
       /\ session = NoSession => closed_sessions' = closed_sessions
C25_SessionLifecycle == [][C25_Step]_vars

\* a client that was opened, closed and opened again, by a data call
C25_Witness ==
  /\ session = 2
  /\ closed_sessions = {1}
  /\ api_log[Len(api_log)].op \in {"get_historical_data", "get_market_chart"}
  /\ \E i \in DOMAIN api_log : api_log[i].op \in Closing

====
